---- MODULE Spec2Model ----
(***************************************************************************)
(* Research query orchestration engine of financial-research-agent:        *)
(* src/src/flow.py (decompose_query, check_missing_parts, process_query,   *)
(* process_queries_in_parallel, merge_responses, run_agent_loop,           *)
(* extract_visualizations), src/src/main.py (process_query) and            *)
(* src/src/visualization_extractor.py (extract_visualizations).            *)
(*                                                                         *)
(* Texts are modelled by what the code reads of them.  A question is a     *)
(* record [core, pad, hint]: core names the trimmed text, pad says that    *)
(* the text carries surrounding whitespace, hint says that process_query   *)
(* appended its "(Use the Stock Info Tool with ticker ...)" suffix.        *)
(***************************************************************************)
EXTENDS Integers, Sequences, FiniteSets, TLC

VARIABLES
    pc,                    \* position of the control thread in run_agent_loop
    query,                 \* run_agent_loop's query (= original_query in main.py)
    max_retries,           \* run_agent_loop's max_retries argument
    max_parallel_workers,  \* run_agent_loop's max_parallel_workers argument
    sub_queries,           \* result of decompose_query
    seen_queries,          \* flow.py:584
    answered_parts,        \* flow.py:585
    qa_pairs,              \* flow.py:586 / 703
    to_ask,                \* flow.py:636
    iteration,             \* loop variable of flow.py:638
    high_idx,              \* position in high_priority_queries, flow.py:707
    tasks,                 \* futures of the running ThreadPoolExecutor batch
    pool_size,             \* max_workers of the running batch
    batch_kind,            \* which call site submitted the running batch
    final_response,        \* result of merge_responses
    transcript,            \* pairs merge_responses formatted into qa_text
    merge_calls,           \* Completion Service calls issued by merge_responses
    graphs, tables,        \* visualization_data of the returned dict
    main_dispatches,       \* history: Agent calls made one at a time before gap analysis
    batch_submitted,       \* history: questions handed to process_queries_in_parallel
    seq_calls,             \* history: Agent calls made by the loop of flow.py:638
    gap_calls,             \* history: check_missing_parts invocations
    gap_all_none,          \* history: every check_missing_parts response so far was 'None'
    failures,              \* history: Agent calls of the run that raised
    d_outcome,             \* Completion Service outcome given to decompose_query
    m_pc, m_options, m_result, \* main.process_query: position, visualization_options, result
    gap_response,          \* the Completion Service outcome check_missing_parts is applied to on its own
    gap_raised,            \* history: the Completion Service call of the last check_missing_parts raised
    gap_result,            \* the list check_missing_parts returned when applied on its own
    agent_plan,            \* what agent.invoke does on each task of a batch run on its own
    batches,               \* history: calls of process_queries_in_parallel
    gap_given,             \* history: the qa_pairs argument of the last check_missing_parts call
    llm_plan,              \* what the three Completion Service calls do when merge_responses is applied on its own
    draft,                 \* the text merge_responses handed to entity verification, when applied on its own
    safety_reply           \* how the pending check_query_safety call of main.process_query will end

vars == <<pc, query, max_retries, max_parallel_workers, sub_queries, seen_queries,
          answered_parts, qa_pairs, to_ask, iteration, high_idx, tasks, pool_size,
          batch_kind, final_response, transcript, merge_calls, graphs, tables,
          main_dispatches, batch_submitted, seq_calls, gap_calls, gap_all_none,
          failures, d_outcome, m_pc, m_options, m_result, gap_response,
          gap_raised, gap_result,
          agent_plan, batches, gap_given,
          llm_plan, draft, safety_reply>>

---------------------------------------------------------------------------
(* Bounds of the model *)

\* max_retries ranges over 0..MaxRetries
MaxRetries == 5
\* a GapAnalyzer response names at most MaxGap follow-up questions
MaxGap == 2
\* the decomposer emits at most MaxSubs sub-queries
MaxSubs == 2
\* flow.py:549: the default of max_parallel_workers, which main.py leaves as it is
DefaultWorkers == 3
\* at most MaxFailures Agent calls of one run of run_agent_loop raise
MaxFailures == 1
\* the Completion Service extracts at most MaxExtracted tables and graphs
MaxExtracted == 3
\* max_tables and max_graphs range over 0..MaxLimit
MaxLimit == 2
\* merge_responses is applied to at most MaxPairs pairs when checked on its own
MaxPairs == 3
\* decompose_query is given at most MaxSortLen sub-queries when checked on its own
MaxSortLen == 4
\* main.py:93: the max_retries main.process_query passes to run_agent_loop
MainMaxRetries == 5
\* process_queries_in_parallel is given at most MaxBatch questions when checked on its own
MaxBatch == 3
\* max_workers and max_parallel_workers range over 1..MaxWorkers
MaxWorkers == 3
\* check_missing_parts is given responses of at most MaxGapLines lines when checked on its own
MaxGapLines == 2
\* merge_responses is given at most MaxPlanPairs pairs when checked with planned call outcomes
MaxPlanPairs == 2

\* the trimmed question texts of the model
Core == {1, 2}
\* texts that contain a stock term and the name of a mapped company (flow.py:203-229)
StockCores == {1}
\* priorities a decomposer response gives its sub-queries
Priorities == {7, 8}

Str(c, p) == [core |-> c, pad |-> p, hint |-> FALSE]

\* str.strip() of a question
Trim(q) == [q EXCEPT !.pad = FALSE]

\* queries a caller passes: a stock question, and a padded general question
Queries == {Str(1, FALSE), Str(2, TRUE)}

Min(a, b) == IF a <= b THEN a ELSE b

Range(s) == {s[i] : i \in 1..Len(s)}

SeqsUpTo(S, n) == UNION {[1..k -> S] : k \in 0..n}

---------------------------------------------------------------------------
(* decompose_query, flow.py:55-144 *)

SubQuery(t, p) == [sub_query |-> t, focus |-> "metrics", priority |-> p]

\* the sub-queries a decomposer response may name for query q: the query itself as
\* the core question, and another question with each priority
SubEntries(q) == {SubQuery(q, 9)} \cup {SubQuery(Str(2, FALSE), p) : p \in Priorities}

\* outcomes of chain.invoke in decompose_query: the call raises, the parser rejects
\* malformed JSON, the parsed value is falsy ({}), it has no "sub_queries" key, an
\* element lacks one of the keys read at flow.py:111, or it is a list of sub-queries
DecomposeOutcomes(q, n) ==
    {[kind |-> k, subs |-> <<>>] : k \in {"raise", "malformed", "falsy", "nokey", "badelem"}}
    \cup {[kind |-> "list", subs |-> l] : l \in SeqsUpTo(SubEntries(q), n)}

\* a variant whose fallback has the priority of an ordinary sub-query
FallbackSubQueryLowPriority(q) == [sub_query |-> q, focus |-> "general", priority |-> 5]

\* flow.py:89-94 and 129-134
FallbackSubQuery(q) == [sub_query |-> q, focus |-> "general", priority |-> 10]

\* flow.py:86: "if not result or 'sub_queries' not in result"
NoSubQueries(out) == out.kind \in {"falsy", "nokey"}

\* a variant that puts e behind the elements of its own priority
RECURSIVE InsertBehindTies(_, _)
InsertBehindTies(e, s) ==
    IF s = <<>> THEN <<e>>
    ELSE IF Head(s).priority >= e.priority
         THEN <<Head(s)>> \o InsertBehindTies(e, Tail(s))
         ELSE <<e>> \o s

\* one step of a stable descending sort: e, which precedes the elements of s in the
\* input, goes before the first element whose priority is not greater than its own
RECURSIVE InsertByPriority(_, _)
InsertByPriority(e, s) ==
    IF s = <<>> THEN <<e>>
    ELSE IF Head(s).priority > e.priority
         THEN <<Head(s)>> \o InsertByPriority(e, Tail(s))
         ELSE <<e>> \o s

\* a variant that leaves the list in the order of the response
SortByPriorityUnsorted(s) == s

\* flow.py:114: sorted(sub_queries, key=priority, reverse=True), which is stable
RECURSIVE SortByPriority(_)
SortByPriority(s) ==
    IF s = <<>> THEN <<>>
    ELSE InsertByPriority(Head(s), SortByPriority(Tail(s)))

\* decompose_query(q) when chain.invoke ends with outcome out
DecomposeQuery(q, out) ==
    IF out.kind \in {"raise", "malformed"} THEN <<FallbackSubQuery(q)>>   \* flow.py:126-144
    ELSE IF NoSubQueries(out) THEN <<FallbackSubQuery(q)>>                \* flow.py:86-104
    ELSE IF out.kind = "badelem" THEN <<FallbackSubQuery(q)>>             \* KeyError at 111, caught at 126
    ELSE SortByPriority(out.subs)

\* flow.py:692 / 761: [sq["sub_query"] for sq in sub_queries]
SubQueryTexts(subs) == [i \in 1..Len(subs) |-> subs[i].sub_query]

---------------------------------------------------------------------------
(* check_missing_parts, flow.py:146-194 *)

\* a line of a GapAnalyzer response: core is the question it holds (0 with none: the
\* line is the word None; 0 without: the line is blank), none says that the line
\* contains the letters "none"
\* a line of the response: core is the question it asks (0: none), none says that it
\* holds the word None in some letter case, dash that it starts with "- ", pad that
\* whitespace surrounds it
Line(c, n, d, p) == [core |-> c, none |-> n, dash |-> d, pad |-> p]

GapLine(c, n) == Line(c, n, FALSE, FALSE)

NoneResponse == [kind |-> "text", lines |-> <<GapLine(0, TRUE)>>]

\* the responses of the Completion Service to the missing-info prompt
GapResponses ==
    {[kind |-> "raise", lines |-> <<>>], NoneResponse}
    \cup {[kind |-> "text", lines |-> l] :
            l \in SeqsUpTo({GapLine(c, FALSE) : c \in Core}, MaxGap) \ {<<>>}}

\* the text "None", and the follow-up questions in which the letters "none" occur
NoneWordCore == 3
NoneCores == {4}

\* "none" in line.lower()
ContainsNone(l) == l.none \/ l.core \in NoneCores

\* flow.py:185: "none" in missing_info.lower()
SaysNone(resp) == \E i \in 1..Len(resp.lines) : ContainsNone(resp.lines[i])

\* flow.py:189: line.strip() is not empty
NonBlank(l) == l.core # 0 \/ l.none \/ l.dash

\* flow.py:189: line.strip("- ").strip()
StripLine(l) ==
    IF l.core # 0 THEN Str(l.core, FALSE)
    ELSE IF l.none THEN Str(NoneWordCore, FALSE)
    ELSE Str(0, FALSE)

\* flow.py:189: the non-blank lines, each stripped of dashes and whitespace
StrippedLines(lines) ==
    LET kept == SelectSeq(lines, NonBlank)
    IN  [i \in 1..Len(kept) |-> StripLine(kept[i])]

\* a variant without the test for "none"
CheckMissingPartsNoneUntested(resp) ==
    IF resp.kind = "raise" THEN <<>>
    ELSE StrippedLines(resp.lines)

\* a variant whose except branch asks for the first answered question again
CheckMissingPartsFailOpen(resp) ==
    IF resp.kind = "raise" THEN <<Str(1, FALSE)>>
    ELSE IF SaysNone(resp) THEN <<>>
    ELSE StrippedLines(resp.lines)

CheckMissingParts(resp) ==
    IF resp.kind = "raise" THEN <<>>          \* flow.py:192-194
    ELSE IF SaysNone(resp) THEN <<>>          \* flow.py:185-187
    ELSE StrippedLines(resp.lines)            \* flow.py:189-191

---------------------------------------------------------------------------
(* process_query, flow.py:196-257 *)

\* answers are sequences of words
AgentText == <<"Revenue", "was", "81.8", "billion">>

\* flow.py:257, the answer of the except branch
ErrorAnswer == <<"Error", "processing", "your", "request.">>

\* outcomes of agent.invoke: it returns a text or it raises; f is the number of Agent
\* calls of the run that raised so far
AgentOutcomes(f) == IF f < MaxFailures THEN {"text", "raise"} ELSE {"text"}

Failed(o) == IF o = "raise" THEN 1 ELSE 0

\* flow.py:232-239: a stock query naming a mapped company gets the ticker hint appended
Enhance(q) == IF q.core \in StockCores THEN [q EXCEPT !.hint = TRUE] ELSE q

\* process_query returns (query, response), query being the enhanced one
ProcessQuery(q, outcome) ==
    <<Enhance(q), IF outcome = "raise" THEN ErrorAnswer ELSE AgentText>>

---------------------------------------------------------------------------
(* merge_responses and post_process_response, flow.py:287-547 *)

\* answers merge_responses may be given: an Agent text, the error answer of
\* process_query, an empty answer, refusals, and a text with a failure phrase
IDontKnow == <<"I", "don't", "know", "the", "figure">>
IDontKnowUpper == <<"I", "DON'T", "KNOW">>
UnableAnswer == <<"I", "was", "unable", "to", "answer", "this">>
AnswerSamples == {AgentText, ErrorAnswer, <<>>, IDontKnow, IDontKnowUpper, UnableAnswer}

\* str.lower() of a word
Lower(w) ==
    CASE w = "I" -> "i"
      [] w = "DON'T" -> "don't"
      [] w = "KNOW" -> "know"
      [] w = "Error" -> "error"
      [] w = "Revenue" -> "revenue"
      [] OTHER -> w

LowerAll(a) == [i \in 1..Len(a) |-> Lower(a[i])]

\* str.startswith
StartsWith(a, prefix) == Len(a) >= Len(prefix) /\ SubSeq(a, 1, Len(prefix)) = prefix

\* flow.py:318: pair.get("answer") is falsy
IsFalsy(a) == a = <<>>

\* a variant that compares without lower()
StartsWithIDontKnowCased(a) == StartsWith(a, <<"I", "don't", "know">>)

\* flow.py:319: str(answer).lower().startswith("i don't know")
StartsWithIDontKnow(a) == StartsWith(LowerAll(a), <<"i", "don't", "know">>)

\* flow.py:304-314: tuples become {"question", "answer"} dicts
FormatPairs(qa) == [i \in 1..Len(qa) |-> [question |-> qa[i][1], answer |-> qa[i][2]]]

\* flow.py:317-319
IsValidPair(p) == ~IsFalsy(p.answer) /\ ~StartsWithIDontKnow(p.answer)

ValidPairs(qa) == SelectSeq(FormatPairs(qa), IsValidPair)

\* A text of the Completion Service as post_process_response reads it: markers is
\* "none" when no qa_indicator occurs in it, "plain" when indicators occur and
\* removing each leaves none, "nested" when removing them leaves one ("QQ::")
Text(src, mk) == [src |-> src, markers |-> mk, answers |-> <<>>]
MarkerKinds == {"none", "plain", "nested"}

\* outcomes of one Completion Service call that returns a text
TextOutcomes == {"raise"} \cup MarkerKinds

\* those outcomes within a run of run_agent_loop: the call raises, or returns a text
\* free of indicators
RunTextOutcomes == {"raise", "none"}

\* no text has been handed to entity verification
NoDraft == Text("unset", "none")

\* flow.py:341
Apology == Text("apology", "none")

\* a variant that lists the answers newest first
BulletsNewestFirst(valid) ==
    [src |-> "bullets", markers |-> "none",
     answers |-> [i \in 1..Len(valid) |-> valid[Len(valid) + 1 - i].answer]]

\* flow.py:392-394
Bullets(valid) == [src |-> "bullets", markers |-> "none",
                   answers |-> [i \in 1..Len(valid) |-> valid[i].answer]]

\* flow.py:426
HasQaFormat(t) == t.markers # "none"

\* flow.py:478-479: response.replace(indicator, "") for each indicator in turn
StripIndicators(t) ==
    [t EXCEPT !.src = "stripped", !.markers = IF t.markers = "nested" THEN "plain" ELSE "none"]

\* flow.py:429-487: the draft handed to entity verification, and the calls made for it
Reformatted(t, reformat) ==
    IF ~HasQaFormat(t) THEN [draft |-> t, calls |-> 0]
    ELSE IF reformat = "raise" THEN [draft |-> StripIndicators(t), calls |-> 1]
    ELSE [draft |-> Text("reformat", reformat), calls |-> 1]

\* a variant that gives back the text it was called with when verification fails
PostProcessResponseUndone(t, reformat, verify) ==
    LET r == Reformatted(t, reformat)
    IN  [response |-> IF verify = "raise" THEN t ELSE Text("verify", verify),
         calls |-> r.calls + 1, draft |-> r.draft]

\* post_process_response, flow.py:408-547
PostProcessResponse(t, reformat, verify) ==
    LET r == Reformatted(t, reformat)
    IN  [response |-> IF verify = "raise" THEN r.draft ELSE Text("verify", verify),
         calls |-> r.calls + 1, draft |-> r.draft]

\* a variant without the early return of flow.py:338-341
MergeResponsesAlwaysSynthesising(qa, synth, reformat, verify) ==
    LET valid == ValidPairs(qa)
    IN  IF synth = "raise"
        THEN [response |-> Bullets(valid), transcript |-> valid, calls |-> 1, draft |-> NoDraft]
        ELSE LET pp == PostProcessResponse(Text("synth", synth), reformat, verify)
             IN  [response |-> pp.response, transcript |-> valid, calls |-> 1 + pp.calls,
                  draft |-> pp.draft]

\* a variant without the except branch of flow.py:384-406: the exception of the
\* synthesis call reaches the caller
MergeResponsesUncaught(qa, synth, reformat, verify) ==
    LET valid == ValidPairs(qa)
    IN  IF valid = <<>>
        THEN [response |-> Apology, transcript |-> <<>>, calls |-> 0, draft |-> NoDraft]
        ELSE IF synth = "raise"
        THEN [response |-> Text("exception", "none"), transcript |-> valid, calls |-> 1,
              draft |-> NoDraft]
        ELSE LET pp == PostProcessResponse(Text("synth", synth), reformat, verify)
             IN  [response |-> pp.response, transcript |-> valid, calls |-> 1 + pp.calls,
                  draft |-> pp.draft]

\* merge_responses, flow.py:287-406: the returned text, the pairs formatted into the
\* prompt, and the number of Completion Service calls
MergeResponses(qa, synth, reformat, verify) ==
    LET valid == ValidPairs(qa)
    IN  IF valid = <<>>
        THEN [response |-> Apology, transcript |-> <<>>, calls |-> 0, draft |-> NoDraft]
        ELSE IF synth = "raise"
        THEN [response |-> Bullets(valid), transcript |-> valid, calls |-> 1, draft |-> NoDraft]
        ELSE LET pp == PostProcessResponse(Text("synth", synth), reformat, verify)
             IN  [response |-> pp.response, transcript |-> valid, calls |-> 1 + pp.calls,
                  draft |-> pp.draft]

---------------------------------------------------------------------------
(* extract_visualizations, flow.py:767-838 and visualization_extractor.py:16-80 *)

\* the items of an extracted array, in order
Items(n) == [i \in 1..n |-> i]

\* an array of the parsed object: a number of items, or -1 when the key is missing
ArraySizes(n) == -1..n

\* outcomes of the extraction call: it raises, the content is not JSON, the parsed
\* value is no object, or it is an object with its tables and graphs arrays
VizOutcomes(n) ==
    {[kind |-> k, tables |-> -1, graphs |-> -1] : k \in {"raise", "malformed", "nondict"}}
    \cup {[kind |-> "dict", tables |-> t, graphs |-> g] : t \in ArraySizes(n), g \in ArraySizes(n)}

\* dict.get(key, [])
GetArray(n) == IF n < 0 THEN <<>> ELSE Items(n)

\* those outcomes within a run of run_agent_loop: the call raises, every array comes
\* back full, or the tables come back full and the object has no "graphs" key
RunVizOutcomes ==
    {o \in VizOutcomes(MaxExtracted) :
        o.kind = "raise" \/ (o.tables = MaxExtracted /\ o.graphs \in {-1, MaxExtracted})}

NoVisualizations == [tables |-> <<>>, graphs |-> <<>>]

\* flow.extract_visualizations followed by the .get calls of flow.py:694-695
FlowExtractVisualizations(out) ==
    IF out.kind \in {"raise", "malformed"} THEN NoVisualizations     \* flow.py:821-838
    ELSE IF out.kind = "nondict" THEN NoVisualizations               \* flow.py:802-804
    ELSE [tables |-> GetArray(out.tables), graphs |-> GetArray(out.graphs)]

\* s[:n]
Truncate(s, n) ==
    IF n >= 0 THEN SubSeq(s, 1, Min(Len(s), n))
    ELSE SubSeq(s, 1, Len(s) + n)

\* visualization_extractor.extract_visualizations
ExtractVisualizations(out, max_tables, max_graphs) ==
    IF out.kind \in {"raise", "malformed", "nondict"} THEN NoVisualizations
    ELSE [tables |-> Truncate(GetArray(out.tables), max_tables),
          graphs |-> Truncate(GetArray(out.graphs), max_graphs)]

---------------------------------------------------------------------------
(* process_queries_in_parallel, flow.py:259-285 *)

\* flow.py:265: one future per query, in submission order
Submit(qs) == [i \in 1..Len(qs) |-> [q |-> qs[i], st |-> "queued", res |-> <<>>]]

Running == {i \in 1..Len(tasks) : tasks[i].st = "running"}

AllDone == \A i \in 1..Len(tasks) : tasks[i].st = "done"

\* a variant whose result loop ends at the first task that failed
BatchResultsUntilFailure ==
    LET failed == {i \in 1..Len(tasks) : tasks[i].res[2] = ErrorAnswer}
        last == IF failed = {} THEN Len(tasks)
                ELSE (CHOOSE i \in failed : \A j \in failed : i <= j) - 1
    IN  [i \in 1..last |-> tasks[i].res]

\* flow.py:268-274: the results, in the order of future_to_query
BatchResults == [i \in 1..Len(tasks) |-> tasks[i].res]

\* a variant in which every queued task gets a thread at once
WorkerStartUnpooled ==
    /\ pc = "batch"
    /\ \E i \in 1..Len(tasks) :
        /\ tasks[i].st = "queued"
        /\ \A j \in 1..(i - 1) : tasks[j].st # "queued"
        /\ tasks' = [tasks EXCEPT ![i].st = "running"]
    /\ UNCHANGED <<pc, query, max_retries, max_parallel_workers, sub_queries,
                   seen_queries, answered_parts, qa_pairs, to_ask, iteration, high_idx,
                   pool_size, batch_kind, final_response, transcript, merge_calls,
                   graphs, tables, main_dispatches, batch_submitted, seq_calls,
                   gap_calls, gap_all_none, failures, d_outcome, m_pc, m_options,
                   m_result, gap_response, gap_raised, gap_result, agent_plan, batches,
                   gap_given, llm_plan, draft, safety_reply>>

\* a pool thread takes the oldest queued task while fewer than max_workers run
WorkerStart ==
    /\ pc = "batch"
    /\ Cardinality(Running) < pool_size
    /\ \E i \in 1..Len(tasks) :
        /\ tasks[i].st = "queued"
        /\ \A j \in 1..(i - 1) : tasks[j].st # "queued"
        /\ tasks' = [tasks EXCEPT ![i].st = "running"]
    /\ UNCHANGED <<pc, query, max_retries, max_parallel_workers, sub_queries,
                   seen_queries, answered_parts, qa_pairs, to_ask, iteration, high_idx,
                   pool_size, batch_kind, final_response, transcript, merge_calls,
                   graphs, tables, main_dispatches, batch_submitted, seq_calls,
                   gap_calls, gap_all_none, failures, d_outcome, m_pc, m_options,
                   m_result, gap_response, gap_raised, gap_result, agent_plan, batches,
                   gap_given, llm_plan, draft, safety_reply>>

\* a variant in which a worker appends its pair to qa_pairs as soon as it has it
WorkerFinishStreaming ==
    /\ pc = "batch"
    /\ \E i \in Running, o \in AgentOutcomes(failures) :
        /\ tasks' = [tasks EXCEPT ![i].st = "done", ![i].res = ProcessQuery(tasks[i].q, o)]
        /\ qa_pairs' = Append(qa_pairs, ProcessQuery(tasks[i].q, o))
        /\ failures' = failures + Failed(o)
    /\ UNCHANGED <<pc, query, max_retries, max_parallel_workers, sub_queries,
                   seen_queries, answered_parts, to_ask, iteration, high_idx, pool_size,
                   batch_kind, final_response, transcript, merge_calls, graphs, tables,
                   main_dispatches, batch_submitted, seq_calls, gap_calls, gap_all_none,
                   d_outcome, m_pc, m_options, m_result, gap_response, gap_raised,
                   gap_result, agent_plan, batches, gap_given, llm_plan, draft,
                   safety_reply>>

\* a running process_query returns its pair (the Agent answered or raised)
WorkerFinish ==
    /\ pc = "batch"
    /\ \E i \in Running, o \in AgentOutcomes(failures) :
        /\ tasks' = [tasks EXCEPT ![i].st = "done", ![i].res = ProcessQuery(tasks[i].q, o)]
        /\ failures' = failures + Failed(o)
    /\ UNCHANGED <<pc, query, max_retries, max_parallel_workers, sub_queries,
                   seen_queries, answered_parts, qa_pairs, to_ask, iteration, high_idx,
                   pool_size, batch_kind, final_response, transcript, merge_calls,
                   graphs, tables, main_dispatches, batch_submitted, seq_calls,
                   gap_calls, gap_all_none, d_outcome, m_pc, m_options, m_result,
                   gap_response, gap_raised, gap_result, agent_plan, batches, gap_given,
                   llm_plan, draft, safety_reply>>

---------------------------------------------------------------------------
(* run_agent_loop, flow.py:549-765 *)

Questions(pairs) == [i \in 1..Len(pairs) |-> pairs[i][1]]

\* a variant that adds the two charged iterations instead of deducting them
RemainingIterationsAdded(n) == n + 2

\* flow.py:618
RemainingIterations(n) == n - 2

\* flow.py:636
NotSeen(parts, seen) == SelectSeq(parts, LAMBDA part : part \notin seen)

\* flow.py:668-672: the parts appended to to_ask, seen_queries growing as they are
RECURSIVE NewParts(_, _)
NewParts(parts, seen) ==
    IF parts = <<>> THEN <<>>
    ELSE IF Head(parts) \notin seen
         THEN <<Head(parts)>> \o NewParts(Tail(parts), seen \cup {Head(parts)})
         ELSE NewParts(Tail(parts), seen)

\* flow.py:702
HighPriorityQueries(subs) ==
    SubQueryTexts(SelectSeq(subs, LAMBDA sq : sq.priority >= 8))

\* flow.py:712
RemainingQueries(subs) ==
    SubQueryTexts(SelectSeq(subs, LAMBDA sq : sq.priority < 8))

\* flow.py:582
IsSingleQuery(subs, q) == Len(subs) = 1 /\ subs[1].sub_query = q

\* flow.py:579-586, 697-703: decompose_query returns and the path is chosen
Decompose ==
    /\ pc = "init"
    /\ \E out \in DecomposeOutcomes(query, MaxSubs) :
        sub_queries' = DecomposeQuery(query, out)
    /\ IF IsSingleQuery(sub_queries', query)
       THEN pc' = "main" /\ seen_queries' = {query}
       ELSE pc' = "high" /\ seen_queries' = seen_queries
    /\ UNCHANGED <<query, max_retries, max_parallel_workers, answered_parts, qa_pairs,
                   to_ask, iteration, high_idx, tasks, pool_size, batch_kind,
                   final_response, transcript, merge_calls, graphs, tables,
                   main_dispatches, batch_submitted, seq_calls, gap_calls, gap_all_none,
                   failures, d_outcome, m_pc, m_options, m_result, gap_response,
                   gap_raised, gap_result, agent_plan, batches, gap_given, llm_plan,
                   draft, safety_reply>>

\* flow.py:588-592
MainDispatch ==
    /\ pc = "main"
    /\ \E o \in AgentOutcomes(failures) :
        /\ qa_pairs' = Append(qa_pairs, ProcessQuery(query, o))
        /\ failures' = failures + Failed(o)
    /\ answered_parts' = Append(answered_parts, query)
    /\ main_dispatches' = main_dispatches + 1
    /\ pc' = "gap1"
    /\ UNCHANGED <<query, max_retries, max_parallel_workers, sub_queries, seen_queries,
                   to_ask, iteration, high_idx, tasks, pool_size, batch_kind,
                   final_response, transcript, merge_calls, graphs, tables,
                   batch_submitted, seq_calls, gap_calls, gap_all_none, d_outcome, m_pc,
                   m_options, m_result, gap_response, gap_raised, gap_result, agent_plan,
                   batches, gap_given, llm_plan, draft, safety_reply>>

\* a variant that hands check_missing_parts the newest pair only
GapArgumentNewest(qa) == IF qa = <<>> THEN <<>> ELSE <<qa[Len(qa)]>>

\* flow.py:600, 632, 664, 730: qa_pairs=qa_pairs
GapArgument(qa) == qa

\* flow.py:594-610: the first gap analysis and the submission of the gap-fill batch
FirstGapCheck ==
    /\ pc = "gap1"
    /\ \E r \in GapResponses :
        LET missing_parts == CheckMissingParts(r)
        IN  /\ gap_all_none' = (gap_all_none /\ r = NoneResponse)
            /\ gap_raised' = (r.kind = "raise")
            /\ IF missing_parts # <<>>
               THEN /\ seen_queries' = seen_queries \cup Range(missing_parts)
                    /\ tasks' = Submit(missing_parts)
                    /\ pool_size' = max_parallel_workers
                    /\ batch_kind' = "gapfill"
                    /\ batch_submitted' = batch_submitted + Len(missing_parts)
                    /\ batches' = batches + 1
                    /\ pc' = "batch"
               ELSE /\ pc' = "merge"
                    /\ UNCHANGED <<seen_queries, tasks, pool_size, batch_kind,
                                   batch_submitted, batches>>
    /\ gap_calls' = gap_calls + 1
    /\ gap_given' = GapArgument(qa_pairs)
    /\ UNCHANGED <<query, max_retries, max_parallel_workers, sub_queries, answered_parts,
                   qa_pairs, to_ask, iteration, high_idx, final_response, transcript,
                   merge_calls, graphs, tables, main_dispatches, seq_calls, failures,
                   d_outcome, m_pc, m_options, m_result, gap_response, gap_result,
                   agent_plan, llm_plan, draft, safety_reply>>

\* flow.py:610-622: the gap-fill batch has returned
JoinGapFill ==
    /\ pc = "batch" /\ batch_kind = "gapfill" /\ AllDone
    /\ qa_pairs' = qa_pairs \o BatchResults
    /\ answered_parts' = answered_parts \o Questions(BatchResults)
    /\ tasks' = <<>>
    /\ pc' = IF RemainingIterations(max_retries) > 0 THEN "gap2" ELSE "merge"
    /\ UNCHANGED <<query, max_retries, max_parallel_workers, sub_queries, seen_queries,
                   to_ask, iteration, high_idx, pool_size, batch_kind, final_response,
                   transcript, merge_calls, graphs, tables, main_dispatches,
                   batch_submitted, seq_calls, gap_calls, gap_all_none, failures,
                   d_outcome, m_pc, m_options, m_result, gap_response, gap_raised,
                   gap_result, agent_plan, batches, gap_given, llm_plan, draft,
                   safety_reply>>

\* flow.py:623-636
SecondGapCheck ==
    /\ pc = "gap2"
    /\ \E r \in GapResponses :
        /\ to_ask' = NotSeen(CheckMissingParts(r), seen_queries)
        /\ gap_all_none' = (gap_all_none /\ r = NoneResponse)
        /\ gap_raised' = (r.kind = "raise")
    /\ gap_calls' = gap_calls + 1
    /\ gap_given' = GapArgument(qa_pairs)
    /\ iteration' = 0
    /\ pc' = "loop"
    /\ UNCHANGED <<query, max_retries, max_parallel_workers, sub_queries, seen_queries,
                   answered_parts, qa_pairs, high_idx, tasks, pool_size, batch_kind,
                   final_response, transcript, merge_calls, graphs, tables,
                   main_dispatches, batch_submitted, seq_calls, failures, d_outcome,
                   m_pc, m_options, m_result, gap_response, gap_result, agent_plan,
                   batches, llm_plan, draft, safety_reply>>

\* a variant that leaves the loop only when to_ask is empty
LoopExitOnEmptyQueue ==
    /\ pc = "loop"
    /\ to_ask = <<>>
    /\ pc' = "merge"
    /\ UNCHANGED <<query, max_retries, max_parallel_workers, sub_queries, seen_queries,
                   answered_parts, qa_pairs, to_ask, iteration, high_idx, tasks,
                   pool_size, batch_kind, final_response, transcript, merge_calls,
                   graphs, tables, main_dispatches, batch_submitted, seq_calls,
                   gap_calls, gap_all_none, failures, d_outcome, m_pc, m_options,
                   m_result, gap_response, gap_raised, gap_result, agent_plan, batches,
                   gap_given, llm_plan, draft, safety_reply>>

\* a variant that goes back to the first gap analysis while questions are left
LoopExitToGapFill ==
    /\ pc = "loop"
    /\ iteration >= RemainingIterations(max_retries) \/ to_ask = <<>>
    /\ pc' = IF to_ask # <<>> THEN "gap1" ELSE "merge"
    /\ UNCHANGED <<query, max_retries, max_parallel_workers, sub_queries, seen_queries,
                   answered_parts, qa_pairs, to_ask, iteration, high_idx, tasks,
                   pool_size, batch_kind, final_response, transcript, merge_calls,
                   graphs, tables, main_dispatches, batch_submitted, seq_calls,
                   gap_calls, gap_all_none, failures, d_outcome, m_pc, m_options,
                   m_result, gap_response, gap_raised, gap_result, agent_plan, batches,
                   gap_given, llm_plan, draft, safety_reply>>

\* flow.py:638-642: the range is exhausted, or to_ask is empty
LoopExit ==
    /\ pc = "loop"
    /\ iteration >= RemainingIterations(max_retries) \/ to_ask = <<>>
    /\ pc' = "merge"
    /\ UNCHANGED <<query, max_retries, max_parallel_workers, sub_queries, seen_queries,
                   answered_parts, qa_pairs, to_ask, iteration, high_idx, tasks,
                   pool_size, batch_kind, final_response, transcript, merge_calls,
                   graphs, tables, main_dispatches, batch_submitted, seq_calls,
                   gap_calls, gap_all_none, failures, d_outcome, m_pc, m_options,
                   m_result, gap_response, gap_raised, gap_result, agent_plan, batches,
                   gap_given, llm_plan, draft, safety_reply>>

\* flow.py:644-657: one sequential dispatch
SequentialDispatch ==
    /\ pc = "loop"
    /\ iteration < RemainingIterations(max_retries)
    /\ to_ask # <<>>
    /\ LET current_query == Head(to_ask)
       IN  /\ to_ask' = Tail(to_ask)
           /\ seen_queries' = seen_queries \cup {current_query}
           /\ \E o \in AgentOutcomes(failures) :
                /\ qa_pairs' = Append(qa_pairs, ProcessQuery(current_query, o))
                /\ failures' = failures + Failed(o)
           /\ answered_parts' = Append(answered_parts, current_query)
    /\ seq_calls' = seq_calls + 1
    /\ IF iteration < RemainingIterations(max_retries) - 1 /\ to_ask' # <<>>
       THEN pc' = "gap3" /\ iteration' = iteration
       ELSE pc' = "loop" /\ iteration' = iteration + 1
    /\ UNCHANGED <<query, max_retries, max_parallel_workers, sub_queries, high_idx,
                   tasks, pool_size, batch_kind, final_response, transcript, merge_calls,
                   graphs, tables, main_dispatches, batch_submitted, gap_calls,
                   gap_all_none, d_outcome, m_pc, m_options, m_result, gap_response,
                   gap_raised, gap_result, agent_plan, batches, gap_given, llm_plan,
                   draft, safety_reply>>

\* flow.py:658-672: gap analysis inside the loop
LoopGapCheck ==
    /\ pc = "gap3"
    /\ \E r \in GapResponses :
        LET added == NewParts(CheckMissingParts(r), seen_queries)
        IN  /\ to_ask' = to_ask \o added
            /\ seen_queries' = seen_queries \cup Range(added)
            /\ gap_all_none' = (gap_all_none /\ r = NoneResponse)
            /\ gap_raised' = (r.kind = "raise")
    /\ gap_calls' = gap_calls + 1
    /\ gap_given' = GapArgument(qa_pairs)
    /\ iteration' = iteration + 1
    /\ pc' = "loop"
    /\ UNCHANGED <<query, max_retries, max_parallel_workers, sub_queries, answered_parts,
                   qa_pairs, high_idx, tasks, pool_size, batch_kind, final_response,
                   transcript, merge_calls, graphs, tables, main_dispatches,
                   batch_submitted, seq_calls, failures, d_outcome, m_pc, m_options,
                   m_result, gap_response, gap_result, agent_plan, batches, llm_plan,
                   draft, safety_reply>>

\* flow.py:705-709: the next high-priority sub-query, alone
HighPriorityDispatch ==
    /\ pc = "high"
    /\ high_idx <= Len(HighPriorityQueries(sub_queries))
    /\ \E o \in AgentOutcomes(failures) :
        /\ qa_pairs' = Append(qa_pairs,
                              ProcessQuery(HighPriorityQueries(sub_queries)[high_idx], o))
        /\ failures' = failures + Failed(o)
    /\ high_idx' = high_idx + 1
    /\ main_dispatches' = main_dispatches + 1
    /\ UNCHANGED <<pc, query, max_retries, max_parallel_workers, sub_queries,
                   seen_queries, answered_parts, to_ask, iteration, tasks, pool_size,
                   batch_kind, final_response, transcript, merge_calls, graphs, tables,
                   batch_submitted, seq_calls, gap_calls, gap_all_none, d_outcome, m_pc,
                   m_options, m_result, gap_response, gap_raised, gap_result, agent_plan,
                   batches, gap_given, llm_plan, draft, safety_reply>>

\* flow.py:711-720: the remaining sub-queries are submitted as a batch
SubmitRemaining ==
    /\ pc = "high"
    /\ high_idx > Len(HighPriorityQueries(sub_queries))
    /\ LET remaining_queries == RemainingQueries(sub_queries)
       IN  IF remaining_queries # <<>>
           THEN /\ tasks' = Submit(remaining_queries)
                /\ pool_size' = Min(max_parallel_workers, Len(remaining_queries))
                /\ batch_kind' = "remaining"
                /\ batch_submitted' = batch_submitted + Len(remaining_queries)
                /\ batches' = batches + 1
                /\ pc' = "batch"
           ELSE /\ pc' = "gapD"
                /\ UNCHANGED <<tasks, pool_size, batch_kind, batch_submitted, batches>>
    /\ UNCHANGED <<query, max_retries, max_parallel_workers, sub_queries, seen_queries,
                   answered_parts, qa_pairs, to_ask, iteration, high_idx, final_response,
                   transcript, merge_calls, graphs, tables, main_dispatches, seq_calls,
                   gap_calls, gap_all_none, failures, d_outcome, m_pc, m_options,
                   m_result, gap_response, gap_raised, gap_result, agent_plan, gap_given,
                   llm_plan, draft, safety_reply>>

\* flow.py:716-721: the batch of remaining sub-queries has returned
JoinRemaining ==
    /\ pc = "batch" /\ batch_kind = "remaining" /\ AllDone
    /\ qa_pairs' = qa_pairs \o BatchResults
    /\ tasks' = <<>>
    /\ pc' = "gapD"
    /\ UNCHANGED <<query, max_retries, max_parallel_workers, sub_queries, seen_queries,
                   answered_parts, to_ask, iteration, high_idx, pool_size, batch_kind,
                   final_response, transcript, merge_calls, graphs, tables,
                   main_dispatches, batch_submitted, seq_calls, gap_calls, gap_all_none,
                   failures, d_outcome, m_pc, m_options, m_result, gap_response,
                   gap_raised, gap_result, agent_plan, batches, gap_given, llm_plan,
                   draft, safety_reply>>

\* flow.py:723-740: the final gap analysis and the submission of its batch
FinalGapCheck ==
    /\ pc = "gapD"
    /\ \E r \in GapResponses :
        LET still_missing == CheckMissingParts(r)
        IN  /\ gap_all_none' = (gap_all_none /\ r = NoneResponse)
            /\ gap_raised' = (r.kind = "raise")
            /\ IF still_missing # <<>>
               THEN /\ tasks' = Submit(still_missing)
                    /\ pool_size' = Min(max_parallel_workers, Len(still_missing))
                    /\ batch_kind' = "missing"
                    /\ batch_submitted' = batch_submitted + Len(still_missing)
                    /\ batches' = batches + 1
                    /\ pc' = "batch"
               ELSE /\ pc' = "merge"
                    /\ UNCHANGED <<tasks, pool_size, batch_kind, batch_submitted, batches>>
    /\ gap_calls' = gap_calls + 1
    /\ gap_given' = GapArgument(qa_pairs)
    /\ UNCHANGED <<query, max_retries, max_parallel_workers, sub_queries, seen_queries,
                   answered_parts, qa_pairs, to_ask, iteration, high_idx, final_response,
                   transcript, merge_calls, graphs, tables, main_dispatches, seq_calls,
                   failures, d_outcome, m_pc, m_options, m_result, gap_response,
                   gap_result, agent_plan, llm_plan, draft, safety_reply>>

\* a variant that repeats the gap analysis after its batch
JoinMissingRechecked ==
    /\ pc = "batch" /\ batch_kind = "missing" /\ AllDone
    /\ qa_pairs' = qa_pairs \o BatchResults
    /\ tasks' = <<>>
    /\ pc' = "gapD"
    /\ UNCHANGED <<query, max_retries, max_parallel_workers, sub_queries, seen_queries,
                   answered_parts, to_ask, iteration, high_idx, pool_size, batch_kind,
                   final_response, transcript, merge_calls, graphs, tables,
                   main_dispatches, batch_submitted, seq_calls, gap_calls, gap_all_none,
                   failures, d_outcome, m_pc, m_options, m_result, gap_response,
                   gap_raised, gap_result, agent_plan, batches, gap_given, llm_plan,
                   draft, safety_reply>>

\* flow.py:736-741: the batch of final missing parts has returned
JoinMissing ==
    /\ pc = "batch" /\ batch_kind = "missing" /\ AllDone
    /\ qa_pairs' = qa_pairs \o BatchResults
    /\ tasks' = <<>>
    /\ pc' = "merge"
    /\ UNCHANGED <<query, max_retries, max_parallel_workers, sub_queries, seen_queries,
                   answered_parts, to_ask, iteration, high_idx, pool_size, batch_kind,
                   final_response, transcript, merge_calls, graphs, tables,
                   main_dispatches, batch_submitted, seq_calls, gap_calls, gap_all_none,
                   failures, d_outcome, m_pc, m_options, m_result, gap_response,
                   gap_raised, gap_result, agent_plan, batches, gap_given, llm_plan,
                   draft, safety_reply>>

\* flow.py:682 / 744-749: merge_responses returns
Merge ==
    /\ pc = "merge"
    /\ \E synth \in RunTextOutcomes, reformat \in {"none"}, verify \in {"none"} :
        LET m == MergeResponses(qa_pairs, synth, reformat, verify)
        IN  /\ final_response' = m.response
            /\ transcript' = m.transcript
            /\ merge_calls' = m.calls
    /\ pc' = "viz"
    /\ UNCHANGED <<query, max_retries, max_parallel_workers, sub_queries, seen_queries,
                   answered_parts, qa_pairs, to_ask, iteration, high_idx, tasks,
                   pool_size, batch_kind, graphs, tables, main_dispatches,
                   batch_submitted, seq_calls, gap_calls, gap_all_none, failures,
                   d_outcome, m_pc, m_options, m_result, gap_response, gap_raised,
                   gap_result, agent_plan, batches, gap_given, llm_plan, draft,
                   safety_reply>>

\* flow.py:685-696 / 752-765: extract_visualizations returns and the result is built
ExtractAndReturn ==
    /\ pc = "viz"
    /\ \E out \in RunVizOutcomes :
        LET v == FlowExtractVisualizations(out)
        IN  graphs' = v.graphs /\ tables' = v.tables
    /\ pc' = "done"
    /\ UNCHANGED <<query, max_retries, max_parallel_workers, sub_queries, seen_queries,
                   answered_parts, qa_pairs, to_ask, iteration, high_idx, tasks,
                   pool_size, batch_kind, final_response, transcript, merge_calls,
                   main_dispatches, batch_submitted, seq_calls, gap_calls, gap_all_none,
                   failures, d_outcome, m_pc, m_options, m_result, gap_response,
                   gap_raised, gap_result, agent_plan, batches, gap_given, llm_plan,
                   draft, safety_reply>>

NoOutcome == [kind |-> "idle", subs |-> <<>>]
NoGapResponse == [kind |-> "idle", lines |-> <<>>]
NoOptions == [include_tables |-> FALSE, include_graphs |-> FALSE,
              max_tables |-> 0, max_graphs |-> 0]
NoResult == [status |-> "idle"]
NoReply == "none"
NoPlan == [synth |-> "idle", reformat |-> "idle", verify |-> "idle"]

\* the locals of run_agent_loop before its first statement
FreshRun ==
    /\ sub_queries = <<>>
    /\ seen_queries = {}
    /\ answered_parts = <<>>
    /\ qa_pairs = <<>>
    /\ to_ask = <<>>
    /\ iteration = 0
    /\ high_idx = 1
    /\ tasks = <<>>
    /\ pool_size = 0
    /\ batch_kind = "none"
    /\ final_response = Text("unset", "none")
    /\ transcript = <<>>
    /\ merge_calls = 0
    /\ graphs = <<>>
    /\ tables = <<>>
    /\ main_dispatches = 0
    /\ batch_submitted = 0
    /\ seq_calls = 0
    /\ gap_calls = 0
    /\ gap_all_none = TRUE
    /\ failures = 0
    /\ gap_response = NoGapResponse
    /\ gap_raised = FALSE
    /\ gap_result = <<>>
    /\ agent_plan = <<>>
    /\ batches = 0
    /\ gap_given = <<>>
    /\ llm_plan = NoPlan
    /\ draft = NoDraft

\* run_agent_loop is entered, flow.py:549-576
Init ==
    /\ pc = "init"
    /\ query \in Queries
    /\ max_retries \in 0..MaxRetries
    /\ max_parallel_workers = DefaultWorkers
    /\ FreshRun
    /\ d_outcome = NoOutcome
    /\ m_pc = "idle"
    /\ m_options = NoOptions
    /\ m_result = NoResult
    /\ safety_reply = NoReply

Next ==
    \/ Decompose
    \/ MainDispatch
    \/ FirstGapCheck
    \/ WorkerStart
    \/ WorkerFinish
    \/ JoinGapFill
    \/ SecondGapCheck
    \/ LoopExit
    \/ SequentialDispatch
    \/ LoopGapCheck
    \/ HighPriorityDispatch
    \/ SubmitRemaining
    \/ JoinRemaining
    \/ FinalGapCheck
    \/ JoinMissing
    \/ Merge
    \/ ExtractAndReturn

Spec == Init /\ [][Next]_vars


FairSpec == Spec /\ WF_vars(Next)

---------------------------------------------------------------------------
(* decompose_query applied on its own *)

\* chain.invoke ends with outcome out and decompose_query returns
DecomposeCall ==
    /\ pc = "d_entry"
    /\ \E out \in DecomposeOutcomes(query, MaxSortLen) :
        /\ d_outcome' = out
        /\ sub_queries' = DecomposeQuery(query, out)
    /\ pc' = "d_return"
    /\ UNCHANGED <<query, max_retries, max_parallel_workers, seen_queries,
                   answered_parts, qa_pairs, to_ask, iteration, high_idx, tasks,
                   pool_size, batch_kind, final_response, transcript, merge_calls,
                   graphs, tables, main_dispatches, batch_submitted, seq_calls,
                   gap_calls, gap_all_none, failures, m_pc, m_options, m_result,
                   gap_response, gap_raised, gap_result, agent_plan, batches, gap_given,
                   llm_plan, draft, safety_reply>>

InitDecompose ==
    /\ pc = "d_entry"
    /\ query \in Queries
    /\ max_retries = 0
    /\ max_parallel_workers = DefaultWorkers
    /\ FreshRun
    /\ d_outcome = NoOutcome
    /\ m_pc = "idle"
    /\ m_options = NoOptions
    /\ m_result = NoResult
    /\ safety_reply = NoReply

NextDecompose == DecomposeCall

SpecDecompose == InitDecompose /\ [][NextDecompose]_vars

---------------------------------------------------------------------------
(* merge_responses applied on its own *)

\* the pairs merge_responses is given
PairSamples == {<<Enhance(Str(c, FALSE)), a>> : c \in Core, a \in AnswerSamples}

\* merge_responses returns, flow.py:287-406
MergeCall ==
    /\ pc = "m_entry"
    /\ \E synth \in TextOutcomes, reformat \in TextOutcomes, verify \in TextOutcomes :
        LET m == MergeResponses(qa_pairs, synth, reformat, verify)
        IN  /\ final_response' = m.response
            /\ transcript' = m.transcript
            /\ merge_calls' = m.calls
    /\ pc' = "m_return"
    /\ UNCHANGED <<query, max_retries, max_parallel_workers, sub_queries, seen_queries,
                   answered_parts, qa_pairs, to_ask, iteration, high_idx, tasks,
                   pool_size, batch_kind, graphs, tables, main_dispatches,
                   batch_submitted, seq_calls, gap_calls, gap_all_none, failures,
                   d_outcome, m_pc, m_options, m_result, gap_response, gap_raised,
                   gap_result, agent_plan, batches, gap_given, llm_plan, draft,
                   safety_reply>>

InitMerge ==
    /\ pc = "m_entry"
    /\ query = Str(1, FALSE)
    /\ max_retries = 0
    /\ max_parallel_workers = DefaultWorkers
    /\ sub_queries = <<>>
    /\ seen_queries = {}
    /\ answered_parts = <<>>
    /\ qa_pairs \in SeqsUpTo(PairSamples, MaxPairs)
    /\ to_ask = <<>>
    /\ iteration = 0
    /\ high_idx = 1
    /\ tasks = <<>>
    /\ pool_size = 0
    /\ batch_kind = "none"
    /\ final_response = Text("unset", "none")
    /\ transcript = <<>>
    /\ merge_calls = 0
    /\ graphs = <<>>
    /\ tables = <<>>
    /\ main_dispatches = 0
    /\ batch_submitted = 0
    /\ seq_calls = 0
    /\ gap_calls = 0
    /\ gap_all_none = TRUE
    /\ failures = 0
    /\ gap_response = NoGapResponse
    /\ gap_raised = FALSE
    /\ gap_result = <<>>
    /\ agent_plan = <<>>
    /\ batches = 0
    /\ gap_given = <<>>
    /\ llm_plan = NoPlan
    /\ draft = NoDraft
    /\ d_outcome = NoOutcome
    /\ m_pc = "idle"
    /\ m_options = NoOptions
    /\ m_result = NoResult
    /\ safety_reply = NoReply

NextMerge == MergeCall

SpecMerge == InitMerge /\ [][NextMerge]_vars

---------------------------------------------------------------------------
(* main.process_query, main.py:57-142 *)

\* outcomes of check_query_safety: the call raises, the refined text is empty, it
\* equals the input, or it differs
SafetyOutcomes == {"raise", "empty", "same", "refined"}

\* a variant that also turns a query away when the check itself fails
IsSafeWhenAnswered(o) == o \in {"same", "refined"}

\* main.py:19-55
IsSafe(o) == o # "empty"

\* main.py:66-72
DefaultOptions == [include_tables |-> TRUE, include_graphs |-> TRUE,
                   max_tables |-> 5, max_graphs |-> 3]

\* the visualization_options a caller passes: None, or a dict with the four keys
VisualizationOptions ==
    {DefaultOptions}
    \cup [include_tables : BOOLEAN, include_graphs : BOOLEAN,
          max_tables : 0..MaxLimit, max_graphs : 0..MaxLimit]

\* main.py:79-85
Rejected ==
    [status |-> "rejected", reason |-> "Query contains harmful content",
     response |-> "None", tables |-> <<>>, graphs |-> <<>>]

\* the metadata run_agent_loop hands back when main.process_query passes none
NoMetadata == <<>>

\* a variant that passes the sub_queries and qa_pairs of run_agent_loop on
SuccessWithPairs(t, g) ==
    [status |-> "success", query |-> query, response |-> final_response,
     metadata |-> NoMetadata, sub_queries |-> SubQueryTexts(sub_queries),
     qa_pairs |-> qa_pairs, tables |-> t, graphs |-> g]

\* main.py:99-106: the result built from the dict run_agent_loop returned
Success(t, g) ==
    [status |-> "success", query |-> query, response |-> final_response,
     metadata |-> NoMetadata, tables |-> t, graphs |-> g]

\* main.py:124
NeedsFollowUp(opts, t, g) ==
    (opts.include_tables \/ opts.include_graphs) /\ (g = <<>> \/ t = <<>>)

\* outcomes of the Completion Service call of the follow-up extraction: each array
\* is missing, empty or full
FollowUpOutcomes ==
    {o \in VizOutcomes(MaxExtracted) :
        o.kind = "dict" => (o.tables \in {-1, 0, MaxExtracted} /\ o.graphs \in {-1, 0, MaxExtracted})}

\* main.py:125-138: the lists after the follow-up extraction, out being the outcome
\* of its Completion Service call
FollowUp(opts, t, g, out) ==
    LET v == ExtractVisualizations(out, opts.max_tables, opts.max_graphs)
    IN  [tables |-> IF opts.include_tables /\ t = <<>> THEN v.tables ELSE t,
         graphs |-> IF opts.include_graphs /\ g = <<>> THEN v.graphs ELSE g]

\* main.py:74-95: the safety check, and the call of run_agent_loop
SafetyCheck ==
    /\ m_pc = "start"
    /\ safety_reply \in SafetyOutcomes
    /\ safety_reply' = NoReply
    /\ IF IsSafe(safety_reply)
       THEN /\ m_pc' = "loop"
            /\ pc' = "init"
            /\ max_retries' = MainMaxRetries
            /\ m_result' = m_result
       ELSE /\ m_pc' = "returned"
            /\ m_result' = Rejected
            /\ UNCHANGED <<pc, max_retries>>
    /\ UNCHANGED <<query, max_parallel_workers, sub_queries, seen_queries,
                   answered_parts, qa_pairs, to_ask, iteration, high_idx, tasks,
                   pool_size, batch_kind, final_response, transcript, merge_calls,
                   graphs, tables, main_dispatches, batch_submitted, seq_calls,
                   gap_calls, gap_all_none, failures, d_outcome, m_options, gap_response,
                   gap_raised, gap_result, agent_plan, batches, gap_given, llm_plan,
                   draft>>

\* main.py:97-142: run_agent_loop has returned; the result is built
ReturnResult ==
    /\ m_pc = "loop"
    /\ pc = "done"
    /\ \E opts \in VisualizationOptions :
        /\ m_options' = opts
        /\ IF NeedsFollowUp(opts, tables, graphs)
           THEN \E out \in FollowUpOutcomes :
                    LET v == FollowUp(opts, tables, graphs, out)
                    IN  m_result' = Success(v.tables, v.graphs)
           ELSE m_result' = Success(tables, graphs)
    /\ m_pc' = "returned"
    /\ UNCHANGED <<pc, query, max_retries, max_parallel_workers, sub_queries,
                   seen_queries, answered_parts, qa_pairs, to_ask, iteration, high_idx,
                   tasks, pool_size, batch_kind, final_response, transcript, merge_calls,
                   graphs, tables, main_dispatches, batch_submitted, seq_calls,
                   gap_calls, gap_all_none, failures, d_outcome, gap_response,
                   gap_raised, gap_result, agent_plan, batches, gap_given, llm_plan,
                   draft, safety_reply>>

InitMain ==
    /\ pc = "notcalled"
    /\ query = Str(1, FALSE)
    /\ max_retries = 0
    /\ max_parallel_workers = DefaultWorkers
    /\ FreshRun
    /\ d_outcome = NoOutcome
    /\ m_pc = "start"
    /\ m_options = NoOptions
    /\ m_result = NoResult
    /\ safety_reply \in SafetyOutcomes

NextMain ==
    \/ SafetyCheck
    \/ Next
    \/ ReturnResult

SpecMain == InitMain /\ [][NextMain]_vars

---------------------------------------------------------------------------
(* process_queries_in_parallel applied on its own, flow.py:259-285 *)

\* what agent.invoke does on a task: it returns a text, it raises, or it never returns
PlanOutcomes == {"text", "raise", "hang"}

\* the plans for n tasks; at most one Agent call never returns
AgentPlans(n) ==
    {p \in [1..n -> PlanOutcomes] :
        Cardinality({i \in 1..n : p[i] = "hang"}) <= 1}

\* the questions a batch is made of
BatchQuestions == {Str(c, FALSE) : c \in Core}

\* a variant that starts a task only when every task submitted before it is done
TaskStartInTurn ==
    /\ pc = "p_run"
    /\ Cardinality(Running) < pool_size
    /\ \E i \in 1..Len(tasks) :
        /\ tasks[i].st = "queued"
        /\ \A j \in 1..(i - 1) : tasks[j].st = "done"
        /\ tasks' = [tasks EXCEPT ![i].st = "running"]
    /\ UNCHANGED <<pc, query, max_retries, max_parallel_workers, sub_queries,
                   seen_queries, answered_parts, qa_pairs, to_ask, iteration, high_idx,
                   pool_size, batch_kind, final_response, transcript, merge_calls,
                   graphs, tables, main_dispatches, batch_submitted, seq_calls,
                   gap_calls, gap_all_none, failures, d_outcome, m_pc, m_options,
                   m_result, gap_response, gap_raised, gap_result, agent_plan, batches,
                   gap_given, llm_plan, draft, safety_reply>>

\* flow.py:263-265: a pool thread takes the oldest queued task while fewer than
\* max_workers run
TaskStart ==
    /\ pc = "p_run"
    /\ Cardinality(Running) < pool_size
    /\ \E i \in 1..Len(tasks) :
        /\ tasks[i].st = "queued"
        /\ \A j \in 1..(i - 1) : tasks[j].st # "queued"
        /\ tasks' = [tasks EXCEPT ![i].st = "running"]
    /\ UNCHANGED <<pc, query, max_retries, max_parallel_workers, sub_queries,
                   seen_queries, answered_parts, qa_pairs, to_ask, iteration, high_idx,
                   pool_size, batch_kind, final_response, transcript, merge_calls,
                   graphs, tables, main_dispatches, batch_submitted, seq_calls,
                   gap_calls, gap_all_none, failures, d_outcome, m_pc, m_options,
                   m_result, gap_response, gap_raised, gap_result, agent_plan, batches,
                   gap_given, llm_plan, draft, safety_reply>>

\* flow.py:196-257: the process_query of a running task returns its pair
TaskFinish ==
    /\ pc = "p_run"
    /\ \E i \in Running :
        /\ agent_plan[i] # "hang"
        /\ tasks' = [tasks EXCEPT ![i].st = "done",
                                  ![i].res = ProcessQuery(tasks[i].q, agent_plan[i])]
    /\ UNCHANGED <<pc, query, max_retries, max_parallel_workers, sub_queries,
                   seen_queries, answered_parts, qa_pairs, to_ask, iteration, high_idx,
                   pool_size, batch_kind, final_response, transcript, merge_calls,
                   graphs, tables, main_dispatches, batch_submitted, seq_calls,
                   gap_calls, gap_all_none, failures, d_outcome, m_pc, m_options,
                   m_result, gap_response, gap_raised, gap_result, agent_plan, batches,
                   gap_given, llm_plan, draft, safety_reply>>

\* flow.py:268-285: every future has a result and the pool has shut down
ParallelReturn ==
    /\ pc = "p_run"
    /\ AllDone
    /\ qa_pairs' = BatchResults
    /\ pc' = "p_return"
    /\ UNCHANGED <<query, max_retries, max_parallel_workers, sub_queries, seen_queries,
                   answered_parts, to_ask, iteration, high_idx, tasks, pool_size,
                   batch_kind, final_response, transcript, merge_calls, graphs, tables,
                   main_dispatches, batch_submitted, seq_calls, gap_calls, gap_all_none,
                   failures, d_outcome, m_pc, m_options, m_result, gap_response,
                   gap_raised, gap_result, agent_plan, batches, gap_given, llm_plan,
                   draft, safety_reply>>

InitParallel ==
    /\ pc = "p_run"
    /\ query = Str(1, FALSE)
    /\ max_retries = 0
    /\ max_parallel_workers = DefaultWorkers
    /\ sub_queries = <<>>
    /\ seen_queries = {}
    /\ answered_parts = <<>>
    /\ qa_pairs = <<>>
    /\ to_ask = <<>>
    /\ iteration = 0
    /\ high_idx = 1
    /\ \E qs \in SeqsUpTo(BatchQuestions, MaxBatch) : tasks = Submit(qs)
    /\ pool_size \in 1..MaxWorkers
    /\ batch_kind = "alone"
    /\ final_response = Text("unset", "none")
    /\ transcript = <<>>
    /\ merge_calls = 0
    /\ graphs = <<>>
    /\ tables = <<>>
    /\ main_dispatches = 0
    /\ batch_submitted = 0
    /\ seq_calls = 0
    /\ gap_calls = 0
    /\ gap_all_none = TRUE
    /\ failures = 0
    /\ d_outcome = NoOutcome
    /\ m_pc = "idle"
    /\ m_options = NoOptions
    /\ m_result = NoResult
    /\ safety_reply = NoReply
    /\ gap_response = NoGapResponse
    /\ gap_raised = FALSE
    /\ gap_result = <<>>
    /\ agent_plan \in AgentPlans(Len(tasks))
    /\ batches = 1
    /\ gap_given = <<>>
    /\ llm_plan = NoPlan
    /\ draft = NoDraft

NextParallel ==
    \/ TaskStart
    \/ TaskFinish
    \/ ParallelReturn

SpecParallel == InitParallel /\ [][NextParallel]_vars

\* every Agent call that can return does so, and the pool threads keep running
FairSpecParallel == SpecParallel /\ WF_vars(NextParallel)

---------------------------------------------------------------------------
(* run_agent_loop under every worker bound, flow.py:549 *)

\* a retry budget under which the loop body and its gap analysis both run
LoopRetries == 4

InitWorkers ==
    /\ pc = "init"
    /\ query \in Queries
    /\ max_retries = LoopRetries
    /\ max_parallel_workers \in 1..MaxWorkers
    /\ FreshRun
    /\ d_outcome = NoOutcome
    /\ m_pc = "idle"
    /\ m_options = NoOptions
    /\ m_result = NoResult
    /\ safety_reply = NoReply

SpecWorkers == InitWorkers /\ [][Next]_vars

---------------------------------------------------------------------------
(* check_missing_parts applied on its own, flow.py:146-194 *)

\* the lines a response is made of: blank lines, a lone dash, the word None, plain
\* follow-up questions and follow-up questions in which the letters "none" occur
LineSamples ==
    {Line(0, n, d, p) : n \in BOOLEAN, d \in BOOLEAN, p \in BOOLEAN}
    \cup {Line(c, FALSE, d, p) : c \in Core \cup NoneCores, d \in BOOLEAN, p \in BOOLEAN}

ResponseSamples ==
    {[kind |-> "raise", lines |-> <<>>]}
    \cup {[kind |-> "text", lines |-> l] : l \in SeqsUpTo(LineSamples, MaxGapLines)}

\* check_missing_parts returns
GapCall ==
    /\ pc = "g_entry"
    /\ gap_result' = CheckMissingParts(gap_response)
    /\ gap_raised' = (gap_response.kind = "raise")
    /\ pc' = "g_return"
    /\ UNCHANGED <<query, max_retries, max_parallel_workers, sub_queries, seen_queries,
                   answered_parts, qa_pairs, to_ask, iteration, high_idx, tasks,
                   pool_size, batch_kind, final_response, transcript, merge_calls,
                   graphs, tables, main_dispatches, batch_submitted, seq_calls,
                   gap_calls, gap_all_none, failures, d_outcome, m_pc, m_options,
                   m_result, gap_response, agent_plan, batches, gap_given, llm_plan,
                   draft, safety_reply>>

InitGap ==
    /\ pc = "g_entry"
    /\ query = Str(1, FALSE)
    /\ max_retries = 0
    /\ max_parallel_workers = DefaultWorkers
    /\ sub_queries = <<>>
    /\ seen_queries = {}
    /\ answered_parts = <<>>
    /\ qa_pairs = <<>>
    /\ to_ask = <<>>
    /\ iteration = 0
    /\ high_idx = 1
    /\ tasks = <<>>
    /\ pool_size = 0
    /\ batch_kind = "none"
    /\ final_response = Text("unset", "none")
    /\ transcript = <<>>
    /\ merge_calls = 0
    /\ graphs = <<>>
    /\ tables = <<>>
    /\ main_dispatches = 0
    /\ batch_submitted = 0
    /\ seq_calls = 0
    /\ gap_calls = 0
    /\ gap_all_none = TRUE
    /\ failures = 0
    /\ gap_response \in ResponseSamples
    /\ gap_raised = FALSE
    /\ gap_result = <<>>
    /\ agent_plan = <<>>
    /\ batches = 0
    /\ gap_given = <<>>
    /\ llm_plan = NoPlan
    /\ draft = NoDraft
    /\ d_outcome = NoOutcome
    /\ m_pc = "idle"
    /\ m_options = NoOptions
    /\ m_result = NoResult
    /\ safety_reply = NoReply

NextGap == GapCall

SpecGap == InitGap /\ [][NextGap]_vars

---------------------------------------------------------------------------
(* run_agent_loop under every failure of its collaborators, flow.py:549-765 *)

\* outcomes of the extraction call with arrays of at most one item
FailureVizOutcomes == VizOutcomes(1)

\* flow.py:682 / 744-749: merge_responses returns, whatever its three calls do
MergeUnderFailures ==
    /\ pc = "merge"
    /\ \E synth \in TextOutcomes, reformat \in TextOutcomes, verify \in TextOutcomes :
        LET m == MergeResponses(qa_pairs, synth, reformat, verify)
        IN  /\ final_response' = m.response
            /\ transcript' = m.transcript
            /\ merge_calls' = m.calls
    /\ pc' = "viz"
    /\ UNCHANGED <<query, max_retries, max_parallel_workers, sub_queries, seen_queries,
                   answered_parts, qa_pairs, to_ask, iteration, high_idx, tasks,
                   pool_size, batch_kind, graphs, tables, main_dispatches,
                   batch_submitted, seq_calls, gap_calls, gap_all_none, failures,
                   d_outcome, m_pc, m_options, m_result, gap_response, gap_raised,
                   gap_result, agent_plan, batches, gap_given, llm_plan, draft,
                   safety_reply>>

\* flow.py:685-696 / 752-765: extract_visualizations returns, whatever its call does
ExtractUnderFailures ==
    /\ pc = "viz"
    /\ \E out \in FailureVizOutcomes :
        LET v == FlowExtractVisualizations(out)
        IN  graphs' = v.graphs /\ tables' = v.tables
    /\ pc' = "done"
    /\ UNCHANGED <<query, max_retries, max_parallel_workers, sub_queries, seen_queries,
                   answered_parts, qa_pairs, to_ask, iteration, high_idx, tasks,
                   pool_size, batch_kind, final_response, transcript, merge_calls,
                   main_dispatches, batch_submitted, seq_calls, gap_calls, gap_all_none,
                   failures, d_outcome, m_pc, m_options, m_result, gap_response,
                   gap_raised, gap_result, agent_plan, batches, gap_given, llm_plan,
                   draft, safety_reply>>

InitFailures ==
    /\ pc = "init"
    /\ query \in Queries
    /\ max_retries = LoopRetries
    /\ max_parallel_workers = DefaultWorkers
    /\ FreshRun
    /\ d_outcome = NoOutcome
    /\ m_pc = "idle"
    /\ m_options = NoOptions
    /\ m_result = NoResult
    /\ safety_reply = NoReply

NextFailures ==
    \/ Decompose
    \/ MainDispatch
    \/ FirstGapCheck
    \/ WorkerStart
    \/ WorkerFinish
    \/ JoinGapFill
    \/ SecondGapCheck
    \/ LoopExit
    \/ SequentialDispatch
    \/ LoopGapCheck
    \/ HighPriorityDispatch
    \/ SubmitRemaining
    \/ JoinRemaining
    \/ FinalGapCheck
    \/ JoinMissing
    \/ MergeUnderFailures
    \/ ExtractUnderFailures

SpecFailures == InitFailures /\ [][NextFailures]_vars

---------------------------------------------------------------------------
(* merge_responses applied on its own with the outcomes of its three Completion
   Service calls fixed beforehand, flow.py:287-406 *)

\* what the synthesis, reformat and verification calls do
Plans == [synth : TextOutcomes, reformat : TextOutcomes, verify : TextOutcomes]

\* merge_responses returns, flow.py:287-406
MergePlanned ==
    /\ pc = "m_entry"
    /\ LET m == MergeResponses(qa_pairs, llm_plan.synth, llm_plan.reformat, llm_plan.verify)
       IN  /\ final_response' = m.response
           /\ transcript' = m.transcript
           /\ merge_calls' = m.calls
           /\ draft' = m.draft
    /\ pc' = "m_return"
    /\ UNCHANGED <<query, max_retries, max_parallel_workers, sub_queries, seen_queries,
                   answered_parts, qa_pairs, to_ask, iteration, high_idx, tasks,
                   pool_size, batch_kind, graphs, tables, main_dispatches,
                   batch_submitted, seq_calls, gap_calls, gap_all_none, failures,
                   d_outcome, m_pc, m_options, m_result, gap_response, gap_raised,
                   gap_result, agent_plan, batches, gap_given, llm_plan, safety_reply>>

InitMergePlan ==
    /\ pc = "m_entry"
    /\ query = Str(1, FALSE)
    /\ max_retries = 0
    /\ max_parallel_workers = DefaultWorkers
    /\ sub_queries = <<>>
    /\ seen_queries = {}
    /\ answered_parts = <<>>
    /\ qa_pairs \in SeqsUpTo(PairSamples, MaxPlanPairs)
    /\ to_ask = <<>>
    /\ iteration = 0
    /\ high_idx = 1
    /\ tasks = <<>>
    /\ pool_size = 0
    /\ batch_kind = "none"
    /\ final_response = Text("unset", "none")
    /\ transcript = <<>>
    /\ merge_calls = 0
    /\ graphs = <<>>
    /\ tables = <<>>
    /\ main_dispatches = 0
    /\ batch_submitted = 0
    /\ seq_calls = 0
    /\ gap_calls = 0
    /\ gap_all_none = TRUE
    /\ failures = 0
    /\ gap_response = NoGapResponse
    /\ gap_raised = FALSE
    /\ gap_result = <<>>
    /\ agent_plan = <<>>
    /\ batches = 0
    /\ gap_given = <<>>
    /\ llm_plan \in Plans
    /\ draft = NoDraft
    /\ d_outcome = NoOutcome
    /\ m_pc = "idle"
    /\ m_options = NoOptions
    /\ m_result = NoResult
    /\ safety_reply = NoReply

NextMergePlan == MergePlanned

SpecMergePlan == InitMergePlan /\ [][NextMergePlan]_vars

---------------------------------------------------------------------------
(* decompose_query applied to well-formed lists of sub-queries, flow.py:106-124 *)

\* sub-queries the Completion Service may emit: each question with each priority, so
\* that different sub-queries share a priority
SortPriorities == {6, 9}
SortEntries == {SubQuery(Str(c, FALSE), p) : c \in Core, p \in SortPriorities}

\* the Completion Service has emitted its list and decompose_query returns
SortCall ==
    /\ pc = "d_entry"
    /\ sub_queries' = DecomposeQuery(query, d_outcome)
    /\ pc' = "d_return"
    /\ UNCHANGED <<query, max_retries, max_parallel_workers, seen_queries,
                   answered_parts, qa_pairs, to_ask, iteration, high_idx, tasks,
                   pool_size, batch_kind, final_response, transcript, merge_calls,
                   graphs, tables, main_dispatches, batch_submitted, seq_calls,
                   gap_calls, gap_all_none, failures, d_outcome, m_pc, m_options,
                   m_result, gap_response, gap_raised, gap_result, agent_plan, batches,
                   gap_given, llm_plan, draft, safety_reply>>

InitSort ==
    /\ pc = "d_entry"
    /\ query = Str(1, FALSE)
    /\ max_retries = 0
    /\ max_parallel_workers = DefaultWorkers
    /\ FreshRun
    /\ d_outcome \in {[kind |-> "list", subs |-> l] : l \in SeqsUpTo(SortEntries, MaxSortLen)}
    /\ m_pc = "idle"
    /\ m_options = NoOptions
    /\ m_result = NoResult
    /\ safety_reply = NoReply

NextSort == SortCall

SpecSort == InitSort /\ [][NextSort]_vars

---------------------------------------------------------------------------
(* Properties *)

\* flow.py:590, 610, 650, 708, 716, 736: the questions handed to process_query so far
AgentDispatches == main_dispatches + batch_submitted + seq_calls

\* C1: in any run of run_agent_loop no two entries of qa_pairs have questions that
\* are equal after trimming.
NoDuplicateQuestions ==
    \A i \in 1..Len(qa_pairs), j \in 1..Len(qa_pairs) :
        i # j => Trim(qa_pairs[i][1]) # Trim(qa_pairs[j][1])

\* C2: for every max_retries = N and every sequence of GapAnalyzer outputs, the
\* sequential retry loop invokes the Agent at most N times.
SequentialRetriesBounded == seq_calls <= max_retries

\* the budget of the loop is used up while questions are still queued
BudgetExhaustedWithQueue ==
    /\ pc = "merge"
    /\ seq_calls >= 1
    /\ seq_calls = RemainingIterations(max_retries)
    /\ to_ask # <<>>

\* C3: if every Agent call and every Completion Service call returns or raises,
\* every run of run_agent_loop eventually returns its result.
Termination == <>(pc = "done")

\* a run that went through the gap-fill batch and the sequential loop has returned
ReturnedAfterRetries == pc = "done" /\ seq_calls >= 1 /\ batch_submitted >= 1

\* C4: in every reachable state, len(qa_pairs) is at most max_retries plus the
\* number of main dispatches plus the size of the parallel batches.
PairsBounded == Len(qa_pairs) <= max_retries + (main_dispatches + batch_submitted)

\* a single-query run with a gap-fill batch of two and a sequential dispatch has
\* collected all its pairs
PairsCollected ==
    /\ pc = "done"
    /\ main_dispatches = 1
    /\ batch_submitted >= 2
    /\ seq_calls >= 1
    /\ Len(qa_pairs) = main_dispatches + batch_submitted + seq_calls

\* C5 as stated: the transcript sent for synthesis holds no pair whose Agent call
\* failed and no pair whose answer contains a failure phrase, and holds exactly the
\* other pairs in their qa_pairs order.
TranscriptExcludesFailures ==
    LET HasFailurePhrase(a) ==
            \/ StartsWith(a, ErrorAnswer)
            \/ \E i \in 1..Len(a) : Lower(a[i]) \in {"error", "unable", "failed"}
        Remaining == SelectSeq(FormatPairs(qa_pairs), LAMBDA p : ~HasFailurePhrase(p.answer))
    IN  (pc = "m_return" /\ merge_calls > 0) => transcript = Remaining

\* C5: the transcript sent for synthesis holds exactly the pairs whose answer is
\* non-empty and does not start, case-insensitively, with "i don't know", in their
\* qa_pairs order; failed pairs and failure phrases are left to the prompt.
TranscriptIsNonEmptyAnswers ==
    LET Kept == {i \in 1..Len(qa_pairs) :
                    /\ qa_pairs[i][2] # <<>>
                    /\ ~StartsWith(LowerAll(qa_pairs[i][2]), <<"i", "don't", "know">>)}
        Rank(i) == Cardinality({j \in Kept : j <= i})
    IN  (pc = "m_return" /\ merge_calls > 0) =>
            /\ Len(transcript) = Cardinality(Kept)
            /\ \A i \in Kept :
                /\ transcript[Rank(i)].question = qa_pairs[i][1]
                /\ transcript[Rank(i)].answer = qa_pairs[i][2]

\* a transcript that dropped a pair and kept the pair of a failed Agent call
TranscriptKeepsFailedPair ==
    /\ pc = "m_return"
    /\ merge_calls > 0
    /\ Len(transcript) < Len(qa_pairs)
    /\ \E i \in 1..Len(transcript) : transcript[i].answer = ErrorAnswer

\* C6 as stated: when every pair of qa_pairs is a failed one, or qa_pairs is empty,
\* merge_responses returns the apology and makes no Completion Service call.
AllFailedGivesApology ==
    (pc = "m_return" /\ \A i \in 1..Len(qa_pairs) : qa_pairs[i][2] = ErrorAnswer)
        => (final_response = Apology /\ merge_calls = 0)

\* C6: merge_responses returns the apology and makes no Completion Service call
\* exactly when every answer of qa_pairs is empty or starts with "i don't know"
\* (qa_pairs empty included); the pair of a failed Agent call is synthesised.
NoAnswersGivesApology ==
    LET NoAnswer(a) == a = <<>> \/ StartsWith(LowerAll(a), <<"i", "don't", "know">>)
    IN  pc = "m_return" =>
            IF \A i \in 1..Len(qa_pairs) : NoAnswer(qa_pairs[i][2])
            THEN final_response = Apology /\ merge_calls = 0
            ELSE final_response # Apology /\ merge_calls >= 1

\* the apology was returned for pairs that are all empty or refusals
ApologyForRefusals ==
    /\ pc = "m_return"
    /\ Len(qa_pairs) >= 2
    /\ final_response = Apology
    /\ merge_calls = 0

\* C7: the result of main.process_query has at most max_tables tables and at most
\* max_graphs graphs, whatever the Completion Service extracts.
VisualizationsBounded ==
    (m_pc = "returned" /\ m_result.status = "success") =>
        /\ Len(m_result.tables) <= m_options.max_tables
        /\ Len(m_result.graphs) <= m_options.max_graphs

\* C8: when the Completion Service call of decompose_query raises, returns malformed
\* JSON or an object without a sub_queries key, decompose_query returns exactly one
\* sub-query, the original query with focus "general" and priority 10.
DecompositionFallback ==
    (pc = "d_return" /\ d_outcome.kind \in {"raise", "malformed", "nokey"}) =>
        /\ sub_queries = <<[sub_query |-> query, focus |-> "general", priority |-> 10]>>
        /\ SubQueryTexts(sub_queries) = <<query>>

\* decompose_query has returned after a malformed response
FellBackOnMalformed == pc = "d_return" /\ d_outcome.kind = "malformed"

\* C9: decompose_query returns a non-empty list for every Completion Service
\* output, so every run dispatches at least one question to the Agent.
AtLeastOneUnitOfWork ==
    /\ pc \notin {"init", "notcalled"} => sub_queries # <<>>
    /\ pc = "done" => AgentDispatches >= 1

\* C10 as stated: if every GapAnalyzer call returns None, the run makes exactly one
\* Agent dispatch and one GapAnalyzer call and ends with one pair.
NoGapsOneDispatch ==
    gap_all_none =>
        /\ AgentDispatches <= 1 /\ gap_calls <= 1 /\ Len(qa_pairs) <= 1
        /\ pc = "done" => (AgentDispatches = 1 /\ gap_calls = 1 /\ Len(qa_pairs) = 1)

\* C10: if every GapAnalyzer call returns None, the run makes exactly one Agent
\* dispatch for each sub-query decompose_query returned (one in the single-query
\* path) and exactly one GapAnalyzer call, and ends with one pair per sub-query.
NoGapsOneDispatchPerSubQuery ==
    (pc = "done" /\ gap_all_none) =>
        /\ AgentDispatches = Len(sub_queries)
        /\ gap_calls = 1
        /\ Len(qa_pairs) = Len(sub_queries)
        /\ IsSingleQuery(sub_queries, query) => Len(qa_pairs) = 1

\* a decomposed run of two sub-queries whose gap analysis returned None has returned
NoGapsTwoSubQueries ==
    /\ pc = "done"
    /\ gap_all_none
    /\ gap_calls = 1
    /\ Len(sub_queries) = 2

\* C11: for every batch of n questions and every subset of them on which the Agent
\* raises, process_queries_in_parallel returns exactly n pairs, one per submitted
\* question in submission order; a question whose Agent call raised has the error
\* answer, every other question has the Agent's answer.
PerTaskIsolation ==
    pc = "p_return" =>
        /\ Len(qa_pairs) = Len(tasks)
        /\ \A i \in 1..Len(tasks) :
            /\ qa_pairs[i][1] = Enhance(tasks[i].q)
            /\ qa_pairs[i][2] = IF agent_plan[i] = "raise" THEN ErrorAnswer ELSE AgentText

\* a batch in which one Agent call raised and another answered has returned
ReturnedWithOneFailure ==
    /\ pc = "p_return"
    /\ \E i, j \in 1..Len(tasks) :
        /\ i < j
        /\ agent_plan[i] = "raise"
        /\ agent_plan[j] = "text"

\* the Agent calls in flight: the tasks of the batch a pool thread is running
InFlight == Cardinality(Running)

\* the Agent calls made by the calling thread itself, each returned within its step
DirectCalls == main_dispatches + seq_calls

\* C12: at every moment of a run the number of Agent calls in flight is at most
\* max_parallel_workers, for every batch size; outside a parallel batch no pool thread
\* runs and a step of the calling thread makes at most one Agent call.
BoundedConcurrency ==
    [][/\ InFlight' <= max_parallel_workers
       /\ pc # "batch" => (InFlight = 0 /\ DirectCalls' <= DirectCalls + 1)
       /\ pc = "batch" => DirectCalls' = DirectCalls]_vars

\* every pool thread is busy while a task of the batch still waits
PoolSaturated ==
    /\ pc = "batch"
    /\ InFlight = max_parallel_workers
    /\ \E i \in 1..Len(tasks) : tasks[i].st = "queued"

\* every task whose Agent call returns or raises is done
OthersDone == \A i \in 1..Len(tasks) : agent_plan[i] # "hang" => tasks[i].st = "done"

\* every Agent call of the batch returns or raises
NoHang == \A i \in 1..Len(tasks) : agent_plan[i] # "hang"

\* C13 as stated: for every worker bound W >= 1 and every batch, if one Agent call
\* never returns while every other returns, every other task of the batch still runs
\* to completion; and if every Agent call returns or raises, the call returns.
SiblingsNeverBlocked ==
    <>(OthersDone /\ (NoHang => pc = "p_return"))

\* C13 amended: the same for every pool of at least two threads; with a pool of one
\* thread the tasks submitted after the one that never returns are never started; and
\* for every pool, if every Agent call returns or raises, the call returns.
SiblingsNotBlockedByOneOfTwo ==
    /\ <>((pool_size >= 2 => OthersDone) /\ (NoHang => pc = "p_return"))
    /\ [](pool_size = 1 =>
            \A i, j \in 1..Len(tasks) :
                (i < j /\ agent_plan[i] = "hang") => tasks[j].st = "queued")

\* in a pool of two or more threads one call hangs and all its siblings are done
SiblingsDoneBesideHungCall ==
    /\ pc = "p_run"
    /\ pool_size >= 2
    /\ Len(tasks) >= 2
    /\ \E i \in 1..Len(tasks) : agent_plan[i] = "hang" /\ tasks[i].st = "running"
    /\ OthersDone

\* the response, compared without regard to letter case, is the word None alone
IsLiteralNone(resp) ==
    /\ Len(resp.lines) = 1
    /\ resp.lines[1].core = 0
    /\ resp.lines[1].none
    /\ ~resp.lines[1].dash

\* C14: check_missing_parts returns the empty list when the response, compared
\* case-insensitively, is the literal "none"; for every other response it returns the
\* non-blank lines of the response, each stripped of list dashes and surrounding
\* whitespace, in order, also when a follow-up line merely contains the letters "none".
NoneOnlyWhenLiteral ==
    (pc = "g_return" /\ gap_response.kind = "text") =>
        gap_result = IF IsLiteralNone(gap_response) THEN <<>>
                     ELSE StrippedLines(gap_response.lines)

\* C15: whenever the Completion Service call inside check_missing_parts raises,
\* check_missing_parts returns the empty list: the step of the scheduler that made the
\* call submits no batch and queues no question, and from the first gap analysis, as
\* from the final one of the decomposed path, it goes straight to merge.
GapAnalyzerFailClosed ==
    [][(gap_calls' = gap_calls + 1 /\ gap_raised') =>
            /\ tasks' = tasks
            /\ batches' = batches
            /\ batch_submitted' = batch_submitted
            /\ to_ask' = to_ask
            /\ seen_queries' = seen_queries
            /\ AgentDispatches' = AgentDispatches
            /\ pc \in {"gap1", "gapD"} => pc' = "merge"
            /\ pc \in {"gap2", "gap3"} => pc' = "loop"]_vars

\* the first gap analysis raised and the run went to merge with the main answer alone
MergedAfterFailedGapAnalysis ==
    /\ pc = "merge"
    /\ gap_calls = 1
    /\ gap_raised
    /\ IsSingleQuery(sub_queries, query)
    /\ Len(qa_pairs) = 1

\* the texts merge_responses returns: the apology, the bullet list of the answers, the
\* synthesised text, and what post_process_response makes of it
ResponseSources == {"apology", "bullets", "synth", "stripped", "reformat", "verify"}

\* the object run_agent_loop returns, flow.py:688-696 and 757-765
RunResult ==
    [response |-> final_response, sub_queries |-> SubQueryTexts(sub_queries),
     qa_pairs |-> qa_pairs, graphs |-> graphs, tables |-> tables]

ContractFields == {"query", "response", "metadata", "sub_queries", "qa_pairs", "graphs", "tables"}

\* C17 as stated: every result main.process_query returns, on the success path and on
\* the rejected path, has a status in {success, rejected, error} and carries all of
\* query, response, metadata, sub_queries, qa_pairs, graphs and tables, sub_queries and
\* qa_pairs being those of run_agent_loop.
ResultCarriesAllFields ==
    m_pc = "returned" =>
        /\ m_result.status \in {"success", "rejected", "error"}
        /\ ContractFields \subseteq DOMAIN m_result
        /\ m_result.status = "success" =>
            /\ m_result.sub_queries = SubQueryTexts(sub_queries)
            /\ m_result.qa_pairs = qa_pairs

\* C17 amended: a result of the success path has status success and exactly the fields
\* query, response, metadata, graphs and tables, with the query given and the response
\* of run_agent_loop; a result of the rejected path has status rejected and exactly the
\* fields reason, response, graphs and tables, response being None and both arrays
\* empty; no result carries sub_queries or qa_pairs and none has status error.
ResultFieldsPerPath ==
    m_pc = "returned" =>
        \/ /\ m_result.status = "success"
           /\ DOMAIN m_result = {"status", "query", "response", "metadata", "graphs", "tables"}
           /\ m_result.query = query
           /\ m_result.response = final_response
           /\ pc = "done"
        \/ /\ m_result.status = "rejected"
           /\ DOMAIN m_result = {"status", "reason", "response", "graphs", "tables"}
           /\ m_result.response = "None"
           /\ m_result.graphs = <<>> /\ m_result.tables = <<>>
           /\ pc = "notcalled"

\* a success result was returned for a run that collected two pairs or more
SuccessReturnedAfterSeveralPairs ==
    /\ m_pc = "returned"
    /\ m_result.status = "success"
    /\ Len(qa_pairs) >= 2
    /\ sub_queries # <<>>

\* the phase a position of run_agent_loop belongs to: INIT, MAIN, PARALLEL_FILL,
\* SEQUENTIAL_RETRY, MERGE, DONE
Phase(p) ==
    CASE p = "init" -> 0
      [] p \in {"main", "high"} -> 1
      [] p \in {"gap1", "batch", "gapD"} -> 2
      [] p \in {"gap2", "loop", "gap3"} -> 3
      [] p \in {"merge", "viz"} -> 4
      [] p = "done" -> 5

\* C18: in every run the phases occur only in the order INIT, MAIN, PARALLEL_FILL,
\* SEQUENTIAL_RETRY, MERGE, DONE, none re-entered once left: merge_responses is
\* invoked once, after the last Agent dispatch and the last GapAnalyzer call,
\* visualization extraction follows merge and nothing else, and no Agent call happens
\* once merge has started.
PhaseOrder ==
    [][/\ Phase(pc') >= Phase(pc)
       /\ Phase(pc) >= 4 =>
            /\ AgentDispatches' = AgentDispatches
            /\ gap_calls' = gap_calls
            /\ qa_pairs' = qa_pairs
            /\ tasks' = tasks /\ InFlight = 0
       /\ pc = "merge" => pc' = "viz"
       /\ pc' = "viz" => pc = "merge"
       /\ pc = "viz" => pc' = "done"]_vars

\* a run that went through every phase has returned
ReturnedThroughEveryPhase ==
    /\ pc = "done"
    /\ main_dispatches = 1
    /\ batch_submitted >= 1
    /\ seq_calls >= 1
    /\ gap_calls >= 3

\* the priorities of the sub-queries that went out first
HighPriorities ==
    LET high == SelectSeq(sub_queries, LAMBDA sq : sq.priority >= 8)
    IN  [i \in 1..Len(high) |-> high[i].priority]

\* C19: when the decomposer produces more than one sub-query, the sub-queries of
\* priority >= 8 are dispatched one at a time in descending-priority order, and the
\* Agent call of each has completed before a sub-query of priority < 8 or a gap
\* follow-up is dispatched.
CoreFactsFirst ==
    ~IsSingleQuery(sub_queries, query) /\ pc # "init" =>
        LET high == HighPriorityQueries(sub_queries)
            sent == Min(Len(qa_pairs), Len(high))
        IN  /\ \A i \in 1..sent : qa_pairs[i][1] = Enhance(high[i])
            /\ \A i, j \in 1..Len(HighPriorities) :
                i < j => HighPriorities[i] >= HighPriorities[j]
            /\ pc = "high" =>
                /\ Len(qa_pairs) = high_idx - 1
                /\ batch_submitted = 0 /\ gap_calls = 0 /\ tasks = <<>>
            /\ (batch_submitted > 0 \/ gap_calls > 0) => Len(qa_pairs) >= Len(high)

\* two sub-queries of different priority >= 8 were answered before the gap follow-ups
\* went out as a batch
TwoCoreFactsThenBatch ==
    /\ pc = "batch"
    /\ batch_kind = "missing"
    /\ Len(HighPriorities) >= 2
    /\ HighPriorities[1] > HighPriorities[2]

\* C20 as stated: every run issues at most one ParallelDispatcher batch; in the
\* decomposed path GapAnalyzer is run once against the MAIN results first, and the
\* sub-queries of priority < 8 are dispatched in the same batch as the gap follow-ups,
\* not in a separate batch before gap analysis.
SingleParallelBatch ==
    /\ batches <= 1
    /\ batches = 1 => gap_calls >= 1

\* C20 amended: a run of the single-query path issues at most one batch, the gap
\* follow-ups after the first gap analysis; a run of the decomposed path issues at
\* most two: the sub-queries of priority < 8 in a batch of their own before any gap
\* analysis, then, after the one GapAnalyzer call of that path, the gap follow-ups in
\* a second batch.
BatchesPerPath ==
    /\ IsSingleQuery(sub_queries, query) =>
        /\ batches <= 1
        /\ batches = 1 => gap_calls >= 1
        /\ batch_kind \in {"none", "gapfill"}
    /\ (pc # "init" /\ ~IsSingleQuery(sub_queries, query)) =>
        /\ batches <= 2
        /\ gap_calls <= 1
        /\ batch_kind \in {"none", "remaining", "missing"}
        /\ (pc = "batch" /\ batch_kind = "remaining") =>
            /\ gap_calls = 0 /\ batches = 1
            /\ [i \in 1..Len(tasks) |-> tasks[i].q] = RemainingQueries(sub_queries)
        /\ (pc = "batch" /\ batch_kind = "missing") =>
            /\ gap_calls = 1
            /\ batches = IF RemainingQueries(sub_queries) = <<>> THEN 1 ELSE 2

\* the decomposed path is running its second batch, the gap follow-ups
SecondBatchRunning ==
    /\ pc = "batch"
    /\ batch_kind = "missing"
    /\ batches = 2
    /\ RemainingQueries(sub_queries) # <<>>

\* C21: in the retry loop, after every dispatch other than the one of the last budgeted
\* iteration, check_missing_parts is run again and every returned follow-up not in
\* seen_queries is added to seen_queries and to to_ask, also when to_ask is empty
\* right after the dispatch.
ReanalysisAfterEveryDispatch ==
    [][/\ (pc = "loop" /\ seq_calls' = seq_calls + 1) =>
            (pc' = "gap3" <=> iteration < RemainingIterations(max_retries) - 1)
       /\ pc = "gap3" =>
            /\ gap_calls' = gap_calls + 1
            /\ Len(to_ask') >= Len(to_ask)
            /\ SubSeq(to_ask', 1, Len(to_ask)) = to_ask
            /\ \A i \in (Len(to_ask) + 1)..Len(to_ask') :
                to_ask'[i] \notin seen_queries /\ to_ask'[i] \in seen_queries']_vars

\* C22: while a task of a parallel batch is not yet done, qa_pairs, seen_queries,
\* answered_parts and to_ask are unchanged; the pairs of the batch are appended to
\* qa_pairs in one step, in which the batch ends, after every task has completed or
\* failed, and no worker writes any of these structures.
BarrierJoin ==
    [][/\ (pc = "batch" /\ ~AllDone) =>
            UNCHANGED <<qa_pairs, seen_queries, answered_parts, to_ask>>
       /\ (pc = "batch" /\ pc' = "batch") =>
            UNCHANGED <<qa_pairs, seen_queries, answered_parts, to_ask>>
       /\ (pc = "batch" /\ pc' # "batch") =>
            /\ AllDone
            /\ qa_pairs' = qa_pairs \o BatchResults
            /\ UNCHANGED <<seen_queries, to_ask>>]_vars

\* one task of a batch of two is done and the other still runs, with no pair of the
\* batch in qa_pairs yet
OneDoneOneRunning ==
    /\ pc = "batch"
    /\ Len(tasks) = 2
    /\ tasks[2].st = "done"
    /\ tasks[1].st = "running"
    /\ Len(qa_pairs) = 1

\* s is a prefix of t
IsPrefix(s, t) == Len(s) <= Len(t) /\ SubSeq(t, 1, Len(s)) = s

\* C23: across every step of a run the earlier value of qa_pairs is a prefix of the
\* later one, and every check_missing_parts call is given the complete qa_pairs
\* sequence accumulated up to that moment, in order.
AppendOnlyLog ==
    [][/\ IsPrefix(qa_pairs, qa_pairs')
       /\ gap_calls' # gap_calls =>
            /\ gap_given' = qa_pairs
            /\ qa_pairs' = qa_pairs]_vars

\* the gap analysis of the retry loop was given the main pair, the batch's pairs and
\* the pair of the loop
GapAnalysisGivenThreePhases ==
    /\ pc = "loop"
    /\ gap_calls = 3
    /\ seq_calls = 1
    /\ Len(gap_given) >= 3
    /\ gap_given = qa_pairs

\* merge_responses reached the synthesis call and that call returned a text
Synthesised == ValidPairs(qa_pairs) # <<>> /\ llm_plan.synth # "raise"

\* the Completion Service calls made for the leak check
ReformatCalls == merge_calls - 2

\* C24: post_process_response issues the corrective call exactly once if the
\* synthesised text contains one of the markers "Q:", "Question:", "A:", "Answer:" and
\* not at all otherwise; if that call fails the markers are stripped, so that the text
\* handed to entity verification contains none of them, for every input text.
LeakCheckLeavesNoMarker ==
    (pc = "m_return" /\ Synthesised) =>
        /\ ReformatCalls = IF llm_plan.synth # "none" THEN 1 ELSE 0
        /\ (llm_plan.synth # "none" /\ llm_plan.reformat = "raise") =>
            draft.markers = "none"

\* the Completion Service calls made for entity verification
VerificationCalls ==
    IF merge_calls = 0 THEN 0
    ELSE merge_calls - 1 - (IF Synthesised /\ llm_plan.synth # "none" THEN 1 ELSE 0)

\* C25: entity verification is attempted exactly once per merge whose synthesis call
\* returned a text and not at all otherwise; when the verification call fails,
\* merge_responses returns the draft it handed to verification unchanged (the
\* synthesised text, its reformatted version or its marker-stripped version), not the
\* bullet list and not the apology.
VerificationFailureKeepsDraft ==
    pc = "m_return" =>
        /\ VerificationCalls = IF Synthesised THEN 1 ELSE 0
        /\ (Synthesised /\ llm_plan.verify = "raise") =>
            /\ final_response = draft
            /\ draft = IF llm_plan.synth = "none" THEN Text("synth", "none")
                       ELSE IF llm_plan.reformat = "raise"
                            THEN StripIndicators(Text("synth", llm_plan.synth))
                            ELSE Text("reformat", llm_plan.reformat)
            /\ final_response.src \in {"synth", "reformat", "stripped"}

\* verification failed after a successful reformat and the reformatted text came back
ReformattedDraftReturned ==
    /\ pc = "m_return"
    /\ Synthesised
    /\ llm_plan.synth = "plain"
    /\ llm_plan.reformat = "none"
    /\ llm_plan.verify = "raise"
    /\ final_response = Text("reformat", "none")

\* the positions of qa_pairs whose pair survives the filter of merge_responses
Surviving ==
    {i \in 1..Len(qa_pairs) :
        /\ qa_pairs[i][2] # <<>>
        /\ ~StartsWith(LowerAll(qa_pairs[i][2]), <<"i", "don't", "know">>)}

\* C26: when the synthesis call fails and at least one pair survived the filter,
\* merge_responses returns a bulleted concatenation that holds the answer of every
\* surviving pair, in qa_pairs order, and of no dropped pair; no further Completion
\* Service call is made.
SynthesisFailureGivesBullets ==
    LET Rank(i) == Cardinality({j \in Surviving : j <= i})
    IN  (pc = "m_return" /\ llm_plan.synth = "raise" /\ Surviving # {}) =>
            /\ final_response.src = "bullets"
            /\ Len(final_response.answers) = Cardinality(Surviving)
            /\ \A i \in Surviving : final_response.answers[Rank(i)] = qa_pairs[i][2]
            /\ merge_calls = 1

\* the bullet list came back with one answer for two pairs, the other one dropped
BulletsWithoutDroppedPair ==
    /\ pc = "m_return"
    /\ llm_plan.synth = "raise"
    /\ Len(qa_pairs) = 2
    /\ Cardinality(Surviving) = 1
    /\ final_response.src = "bullets"

\* the position the i-th emitted sub-query takes in a stable sort by descending
\* priority
SortedPosition(subs, i) ==
    1 + Cardinality({j \in 1..Len(subs) :
                        \/ subs[j].priority > subs[i].priority
                        \/ (subs[j].priority = subs[i].priority /\ j < i)})

\* C27: for every list of sub-queries the Completion Service emits, decompose_query
\* returns the same sub-queries, none added or dropped, sorted by descending priority,
\* sub-queries of equal priority in their order of emission.
StableDescendingOrder ==
    pc = "d_return" =>
        /\ Len(sub_queries) = Len(d_outcome.subs)
        /\ \A i \in 1..Len(d_outcome.subs) :
            sub_queries[SortedPosition(d_outcome.subs, i)] = d_outcome.subs[i]
        /\ \A i, j \in 1..Len(sub_queries) :
            i < j => sub_queries[i].priority >= sub_queries[j].priority

\* a list that was out of order and had two different sub-queries of one priority
SortedListWithTie ==
    /\ pc = "d_return"
    /\ sub_queries # d_outcome.subs
    /\ \E i \in 1..(Len(sub_queries) - 1) :
        /\ sub_queries[i].priority = sub_queries[i + 1].priority
        /\ sub_queries[i].sub_query # sub_queries[i + 1].sub_query

\* how often x occurs in the sequence s
Occurrences(s, x) == Cardinality({i \in 1..Len(s) : s[i] = x})

\* C28: the multiset of the question fields of the pairs process_queries_in_parallel
\* returns equals the multiset of the question strings submitted to it, for every
\* input, stock questions that name a known company included.
ReturnedQuestionsAreSubmitted ==
    pc = "p_return" =>
        LET asked == [i \in 1..Len(tasks) |-> tasks[i].q]
            got == Questions(qa_pairs)
        IN  /\ Len(got) = Len(asked)
            /\ \A x \in Range(asked) \cup Range(got) :
                Occurrences(got, x) = Occurrences(asked, x)

\* C29: in any run the number of check_missing_parts calls is at most
\* max(1, max_retries - 1) in the single-query path, and in the decomposed path it is
\* at most 1 and exactly 1 once merging starts, whatever the calls return.
GapAnalysisBounded ==
    pc # "init" =>
        IF IsSingleQuery(sub_queries, query)
        THEN gap_calls <= (IF max_retries - 1 > 1 THEN max_retries - 1 ELSE 1)
        ELSE /\ gap_calls <= 1
             /\ pc \in {"merge", "viz", "done"} => gap_calls = 1

\* a single-query run returned after using every gap analysis its budget allows
GapAnalysisBudgetUsed ==
    /\ pc = "done"
    /\ IsSingleQuery(sub_queries, query)
    /\ gap_calls >= 3
    /\ gap_calls = max_retries - 1

\* run_agent_loop and everything it calls has not run
LoopUntouched ==
    /\ pc = "notcalled"
    /\ seq_calls = 0 /\ gap_calls = 0 /\ merge_calls = 0 /\ batches = 0
    /\ d_outcome = NoOutcome

\* main.py:74-95 seen as one step: the call of run_agent_loop follows a reply other
\* than the empty one, the empty reply ends in the rejected result, a failed check
\* ends in the call
GateStep ==
    /\ (pc = "notcalled" /\ pc' # "notcalled") =>
            /\ safety_reply \in {"raise", "same", "refined"}
            /\ m_pc = "start" /\ m_pc' = "loop" /\ pc' = "init"
    /\ (m_pc = "start" /\ m_pc' # "start" /\ safety_reply = "empty") =>
            /\ m_pc' = "returned"
            /\ m_result' = Rejected
            /\ LoopUntouched'
    /\ (m_pc = "start" /\ m_pc' # "start" /\ safety_reply = "raise") =>
            /\ m_pc' = "loop" /\ pc' = "init"

\* C30: main.process_query calls run_agent_loop, and with it every agent,
\* decomposition, gap-analysis, merge and visualization call, only after
\* check_query_safety reported the query safe; a query reported unsafe is returned
\* as status "rejected" with response None and empty graphs and tables and nothing
\* else has run; a safety check that fails counts as safe, so the loop is called.
SafetyGate ==
    /\ [][GateStep]_vars
    /\ [](m_pc = "start" => LoopUntouched)
    /\ [](m_result.status = "rejected" =>
            /\ m_pc = "returned"
            /\ LoopUntouched
            /\ m_result.response = "None"
            /\ m_result.graphs = <<>>
            /\ m_result.tables = <<>>)

\* an unsafe query has been returned as rejected, run_agent_loop never called
RejectedBeforeAnyCall ==
    /\ m_pc = "returned"
    /\ m_result.status = "rejected"
    /\ safety_reply = NoReply
    /\ LoopUntouched

====
